---- MODULE Spec2Model ----
(***************************************************************************)
(* OpenAPI client generator: the spec walker (handlePath), the module      *)
(* partitioner (generate) and the status-handler emitter (operationToImpl) *)
(* of OpenApi.ts, with the registration API of JsonSchemaGen they call.    *)
(* The sync command of the CLI (OpenApiJsonSchema.ts) runs generate and    *)
(* writes its modules to the output directory.                             *)
(*                                                                         *)
(* Text is modelled as a sequence of one-character strings, so that        *)
(* camelize, toLowerCase, startsWith and Number(status[0]) are computed    *)
(* as the code computes them.  JSON objects are functions from keys to     *)
(* values; `k \in DOMAIN o` is the code's `"k" in o`; where the order of   *)
(* writing matters, a fragment carries its keys in that order under        *)
(* `keys`.  Documents are                                                  *)
(* OpenAPI 3 documents, so the conversion of a version 2 document that     *)
(* generate starts with does not run.                                      *)
(***************************************************************************)
EXTENDS Integers, Sequences, FiniteSets, TLC

VARIABLES
  spec,        \* the OpenAPI document handed to generate: [paths, components]
  pc,          \* position inside generate: "walk", "group", "common", "tags", "done"
  cursor,      \* index of the next path entry (walk) or tag group (tags) to process
  gen,         \* the JsonSchemaGen instance: [store: name -> schema in registration
               \* order, errors: names flagged by markAsError]
  operations,  \* generate: the ParsedOperation list
  tagGroups,   \* generate: sequence of [tag, ops], in first-seen order
  tagSchemaNames,      \* generate: tag -> set of schema names its operations use
  commonSchemaNames,   \* generate: names used by more than one tag
  modules,     \* generate: the result map, a sequence of [key, value]
  calls,       \* JsonSchemaGen driven directly: the addSchema calls of the run, in order
  output,      \* JsonSchemaGen driven directly: what generate("Schema") returned
  emittedBrands,       \* the JsonSchemaGen instance: the brand registry, the names
               \* of the brand declarations its generate calls have emitted
  previous,    \* the result of the generate invocation made before this one in the
               \* same process, if any
  args,        \* sync: the --spec and --url flags, each absent or present
  before,      \* sync: the output directory as the command found it: absent, or
               \* a sequence of [key: file name, value: text]
  files,       \* sync: the output directory now
  barrelExports        \* sync: the export lines collected for index.ts

\* what belongs to the process around generate
host == <<previous, args, before, files, barrelExports>>

vars == <<spec, pc, cursor, gen, operations, tagGroups,
          tagSchemaNames, commonSchemaNames, modules, calls, output, emittedBrands, host>>

----------------------------------------------------------------------------
(* Text *)

LowerChars == <<"a","b","c","d","e","f","g","h","i","j","k","l","m",
                "n","o","p","q","r","s","t","u","v","w","x","y","z">>
UpperChars == <<"A","B","C","D","E","F","G","H","I","J","K","L","M",
                "N","O","P","Q","R","S","T","U","V","W","X","Y","Z">>
DigitChars == <<"0","1","2","3","4","5","6","7","8","9">>

IndexIn(c, chars) ==
  IF \E i \in DOMAIN chars : chars[i] = c
  THEN CHOOSE i \in DOMAIN chars : chars[i] = c
  ELSE 0

IsLower(c) == IndexIn(c, LowerChars) > 0
IsUpper(c) == IndexIn(c, UpperChars) > 0
IsDigit(c) == IndexIn(c, DigitChars) > 0

toUpperCaseChar(c) == IF IsLower(c) THEN UpperChars[IndexIn(c, LowerChars)] ELSE c
toLowerCaseChar(c) == IF IsUpper(c) THEN LowerChars[IndexIn(c, UpperChars)] ELSE c

toUpperCase(s) == [i \in DOMAIN s |-> toUpperCaseChar(s[i])]
toLowerCase(s) == [i \in DOMAIN s |-> toLowerCaseChar(s[i])]

\* Number(c) of a one-character string; NaN is modelled as -1
NaN == -1
NumberOfChar(c) == IF IsDigit(c) THEN IndexIn(c, DigitChars) - 1 ELSE NaN

startsWith(s, c) == Len(s) > 0 /\ s[1] = c

\* Utils.camelize: the loop state is (str, hadSymbol)
RECURSIVE camelizeFrom(_, _, _, _)
camelizeFrom(self, i, str, hadSymbol) ==
  IF i > Len(self) THEN str
  ELSE LET c == self[i] IN
    IF IsUpper(c) \/ IsLower(c)
    THEN camelizeFrom(self, i + 1,
                      Append(str, IF hadSymbol THEN toUpperCaseChar(c) ELSE c), FALSE)
    ELSE IF IsDigit(c)
    THEN IF Len(str) > 0
         THEN camelizeFrom(self, i + 1, Append(str, c), TRUE)
         ELSE camelizeFrom(self, i + 1, str, hadSymbol)
    ELSE IF Len(str) > 0
         THEN camelizeFrom(self, i + 1, str, TRUE)
         ELSE camelizeFrom(self, i + 1, str, hadSymbol)

camelize(self) == camelizeFrom(self, 1, <<>>, FALSE)

capitalize(s) == IF Len(s) = 0 THEN s ELSE <<toUpperCaseChar(s[1])>> \o Tail(s)

identifier(operationId) == capitalize(camelize(operationId))

\* String.prototype.endsWith
endsWith(s, suffix) ==
  /\ Len(s) >= Len(suffix)
  /\ SubSeq(s, Len(s) - Len(suffix) + 1, Len(s)) = suffix

\* Utils.ts line 42: the alternatives of ID_PATTERN, in order; `start` is the
\* ^ anchor, and every alternative ends with the $ anchor
ID_PATTERN ==
  <<[start |-> TRUE,  text |-> <<"i","d">>],
    [start |-> FALSE, text |-> <<"I","d">>],
    [start |-> FALSE, text |-> <<"_","i","d">>],
    [start |-> FALSE, text |-> <<"I","D">>],
    [start |-> TRUE,  text |-> <<"u","u","i","d">>],
    [start |-> FALSE, text |-> <<"U","u","i","d">>],
    [start |-> FALSE, text |-> <<"_","u","u","i","d">>]>>

\* RegExp.prototype.test for a pattern of anchored literal alternatives
testPattern(pattern, key) ==
  \E i \in DOMAIN pattern :
     IF pattern[i].start THEN key = pattern[i].text ELSE endsWith(key, pattern[i].text)

\* a mutation of isIdField: the pattern without its ID$ alternative
isIdFieldWithoutID(key) ==
  testPattern([i \in 1..6 |-> ID_PATTERN[IF i < 4 THEN i ELSE i + 1]], key)

\* Utils.ts line 44
isIdField(key) == testPattern(ID_PATTERN, key)

\* a mutation of brandNameForId: every key is prefixed with the parent name
brandNameForIdPrefixed(key, parentName) == parentName \o capitalize(key)

\* Utils.ts lines 46-49
brandNameForId(key, parentName) ==
  IF key = <<"i","d">> \/ key = <<"u","u","i","d">>
  THEN parentName \o capitalize(key)
  ELSE identifier(key)

RECURSIVE splitLowerUpper(_)
\* Utils.ts line 33, replace(/([a-z0-9])([A-Z])/g, "$1-$2"): a hyphen between a
\* lower-case letter or digit and the upper-case letter after it
splitLowerUpper(s) ==
  IF Len(s) < 2 THEN s
  ELSE IF (IsLower(s[1]) \/ IsDigit(s[1])) /\ IsUpper(s[2])
  THEN <<s[1], "-">> \o splitLowerUpper(Tail(s))
  ELSE <<s[1]>> \o splitLowerUpper(Tail(s))

RECURSIVE splitAcronym(_)
\* line 34, replace(/([A-Z]+)([A-Z][a-z])/g, "$1-$2"): a hyphen before the last
\* letter of an upper-case run that a lower-case letter follows
splitAcronym(s) ==
  IF Len(s) < 3 THEN s
  ELSE IF IsUpper(s[1]) /\ IsUpper(s[2]) /\ IsLower(s[3])
  THEN <<s[1], "-">> \o splitAcronym(Tail(s))
  ELSE <<s[1]>> \o splitAcronym(Tail(s))

RECURSIVE replaceSymbolRuns(_, _)
\* line 36, replace(/[^a-z0-9]+/g, "-"): every run of other characters becomes
\* one hyphen; inRun says that the character before belonged to such a run
replaceSymbolRuns(s, inRun) ==
  IF s = <<>> THEN <<>>
  ELSE IF IsLower(s[1]) \/ IsDigit(s[1])
  THEN <<s[1]>> \o replaceSymbolRuns(Tail(s), FALSE)
  ELSE (IF inRun THEN <<>> ELSE <<"-">>) \o replaceSymbolRuns(Tail(s), TRUE)

RECURSIVE collapseHyphens(_)
\* line 37, replace(/-+/g, "-")
collapseHyphens(s) ==
  IF Len(s) < 2 THEN s
  ELSE IF s[1] = "-" /\ s[2] = "-" THEN collapseHyphens(Tail(s))
  ELSE <<s[1]>> \o collapseHyphens(Tail(s))

\* line 38, replace(/^-|-$/g, ""): one hyphen off the start, one off the end
trimStart(s) == IF Len(s) > 0 /\ s[1] = "-" THEN Tail(s) ELSE s
trimEnd(s) == IF Len(s) > 0 /\ s[Len(s)] = "-" THEN SubSeq(s, 1, Len(s) - 1) ELSE s

\* Utils.ts lines 30-40
toKebabCase(self) ==
  IF Len(self) = 0 THEN <<>>
  ELSE trimEnd(trimStart(collapseHyphens(
         replaceSymbolRuns(toLowerCase(splitAcronym(splitLowerUpper(self))), FALSE))))

----------------------------------------------------------------------------
(* Insertion-ordered Map, as a sequence of [key, value] *)

MapHas(m, k) == \E i \in DOMAIN m : m[i].key = k
MapGet(m, k) == m[CHOOSE i \in DOMAIN m : m[i].key = k].value
MapSet(m, k, v) ==
  IF MapHas(m, k)
  THEN [i \in DOMAIN m |-> IF m[i].key = k THEN [key |-> k, value |-> v] ELSE m[i]]
  ELSE Append(m, [key |-> k, value |-> v])
MapKeys(m) == {m[i].key : i \in DOMAIN m}
MapValues(m) == {m[i].value : i \in DOMAIN m}

\* Insertion-ordered Set, as a sequence without repetition
SeqAdd(s, x) == IF \E i \in DOMAIN s : s[i] = x THEN s ELSE Append(s, x)
SeqSet(s) == {s[i] : i \in DOMAIN s}

\* Object.assign(target, source) on objects
ObjectAssign(target, source) == source @@ target

RECURSIVE MapAssign(_, _)
\* Object.assign(target, source) on insertion-ordered key/value lists
MapAssign(target, source) ==
  IF source = <<>> THEN target
  ELSE MapAssign(MapSet(target, Head(source).key, Head(source).value), Tail(source))

\* an absent (undefined) name; every name the walker builds is non-empty
Undefined == <<>>

----------------------------------------------------------------------------
(* Schema fragments.  A fragment is a JSON object; its properties are kept  *)
(* as a key/value list in document order.                                   *)

Word_Body == <<"B","o","d","y">>
Word_Params == <<"P","a","r","a","m","s">>
Word_Request == <<"R","e","q","u","e","s","t">>
Word_StreamEvent == <<"S","t","r","e","a","m","E","v","e","n","t">>
Word_default == <<"d","e","f","a","u","l","t">>
Word_2xx == <<"2","x","x">>
Word__untagged == <<"_","u","n","t","a","g","g","e","d">>
Word__common == <<"_","c","o","m","m","o","n">>

StringSchema == [type |-> "string"]
ObjectSchema(properties, required) ==
  [type |-> "object", properties |-> properties, required |-> required]
ArraySchema(items) == [type |-> "array", items |-> items]
AllOfSchema(members) == [allOf |-> members]
\* "#/components/<section>/<name>"; local is FALSE for a pointer not starting with "#/"
Pointer(section, name) == [local |-> TRUE, section |-> section, name |-> name]
RefSchema(name) == ("$ref" :> Pointer("schemas", name))
Prop(key, value) == [key |-> key, value |-> value]

\* OpenApi.ts resolveRef: walk the pointer's segments through the document
resolveRef(sp, ref) == sp.components[ref.section][ref.name]

----------------------------------------------------------------------------
(* JsonSchemaGen: the registration API that OpenApi.ts calls.               *)

RECURSIVE RefsOf(_), RefsOfAll(_)
\* the pointers a fragment holds, in document order
RefsOfAll(fragments) ==
  IF fragments = <<>> THEN <<>>
  ELSE RefsOf(Head(fragments)) \o RefsOfAll(Tail(fragments))
RefsOf(schema) ==
  IF "$ref" \in DOMAIN schema THEN <<schema["$ref"]>>
  ELSE (IF "properties" \in DOMAIN schema
        THEN RefsOfAll([i \in DOMAIN schema.properties |-> schema.properties[i].value])
        ELSE <<>>)
       \o (IF "items" \in DOMAIN schema THEN RefsOf(schema.items) ELSE <<>>)
       \o (IF "allOf" \in DOMAIN schema THEN RefsOfAll(schema.allOf) ELSE <<>>)

\* the declaration names a fragment refers to; a non-local pointer names none
RefNames(schema) ==
  LET refs == RefsOf(schema)
  IN {identifier(refs[i].name) : i \in {j \in DOMAIN refs : refs[j].local}}

RECURSIVE addRefs(_, _, _)
\* register every component the pointers reach that is not registered yet
addRefs(g, sp, pointers) ==
  IF pointers = <<>> THEN g
  ELSE LET ref == Head(pointers)
           name == identifier(ref.name)
       IN IF ~ref.local \/ MapHas(g.store, name)
          THEN addRefs(g, sp, Tail(pointers))
          ELSE LET resolved == resolveRef(sp, ref)
                   g1 == [g EXCEPT !.store = MapSet(@, name, resolved)]
               IN addRefs(addRefs(g1, sp, RefsOf(resolved)), sp, Tail(pointers))

\* a mutation of addSchema: the components the schema points to are not
\* registered
addSchemaWithoutRefs(g, sp, name, root) ==
  IF "$ref" \in DOMAIN root
  THEN [gen |-> g, name |-> identifier(root["$ref"].name)]
  ELSE [gen |-> [g EXCEPT !.store = MapSet(@, name, root)], name |-> name]

\* addSchema(name, schema, context): the name to use as the type reference
addSchema(g, sp, name, root) ==
  IF "$ref" \in DOMAIN root
  THEN [gen |-> addRefs(g, sp, <<root["$ref"]>>),
        name |-> identifier(root["$ref"].name)]
  ELSE [gen |-> [addRefs(g, sp, RefsOf(root)) EXCEPT !.store = MapSet(@, name, root)],
        name |-> name]

markAsError(g, name) == [g EXCEPT !.errors = @ \cup {name}]

\* how many nested $ref / allOf levels the schema resolution follows
MaxResolveDepth == 4

RECURSIVE ResolvedProperties(_, _, _)
\* the property keys of a fragment once $ref is followed and allOf members are
\* merged, recursively (the resolution of response classification, 4.3 and 4.8)
ResolvedProperties(sp, schema, depth) ==
  IF depth = 0 THEN {}
  ELSE IF "$ref" \in DOMAIN schema
  THEN IF schema["$ref"].local
       THEN ResolvedProperties(sp, resolveRef(sp, schema["$ref"]), depth - 1)
       ELSE {}
  ELSE (IF "properties" \in DOMAIN schema THEN MapKeys(schema.properties) ELSE {})
       \cup (IF "allOf" \in DOMAIN schema
             THEN UNION {ResolvedProperties(sp, schema.allOf[i], depth - 1) :
                           i \in DOMAIN schema.allOf}
             ELSE {})

\* the resolved kind is an object with explicit properties
ResolvesToObject(sp, schema) == ResolvedProperties(sp, schema, MaxResolveDepth) # {}

BodyName(name) == name \o Word_Body

\* a registered name flagged as an error whose schema resolves to an object is
\* emitted as a tagged error wrapping the body struct <name>Body
IsTaggedError(g, sp, name) ==
  /\ name \in g.errors
  /\ MapHas(g.store, name)
  /\ ResolvesToObject(sp, MapGet(g.store, name))

\* the tagged-error declaration of a flagged object schema: the class, the
\* discriminator it is constructed with, and the body struct it wraps
TaggedErrorDeclaration(name) ==
  [name |-> name, tag |-> name, body |-> BodyName(name)]

\* every declaration the generator can emit
Declarations(g, sp) ==
  MapKeys(g.store) \cup {BodyName(n) : n \in {m \in MapKeys(g.store) : IsTaggedError(g, sp, m)}}

\* the dependency graph: the declaration names a declaration refers to
DependsOn(g, sp, d) ==
  IF d \in MapKeys(g.store)
  THEN IF IsTaggedError(g, sp, d)
       THEN {BodyName(d)}
       ELSE RefNames(MapGet(g.store, d))
  ELSE UNION {RefNames(MapGet(g.store, n)) :
                n \in {m \in MapKeys(g.store) : IsTaggedError(g, sp, m) /\ BodyName(m) = d}}

\* a mutation of closeOver: only the direct dependencies are added
closeOverShallow(g, sp, frontier, seen) ==
  LET fresh == (frontier \cap Declarations(g, sp)) \ seen
  IN seen \cup fresh \cup
     ((UNION {DependsOn(g, sp, d) : d \in fresh}) \cap Declarations(g, sp))

RECURSIVE closeOver(_, _, _, _)
\* worklist closure: add the frontier, continue with what it depends on
closeOver(g, sp, frontier, seen) ==
  LET fresh == (frontier \cap Declarations(g, sp)) \ seen
  IN IF fresh = {} THEN seen
     ELSE closeOver(g, sp, UNION {DependsOn(g, sp, d) : d \in fresh}, seen \cup fresh)

\* generate(outputKind, nameFilter): the declarations emitted, dependency-closed
genGenerate(g, sp, nameFilter) == closeOver(g, sp, nameFilter, {})

RECURSIVE registrationOrder(_, _, _)
\* the declarations in the order they were registered, from the i-th entry of
\* the store on: the body struct of a tagged error stands before the error
registrationOrder(g, sp, i) ==
  IF i > Len(g.store) THEN <<>>
  ELSE (IF IsTaggedError(g, sp, g.store[i].key)
        THEN <<BodyName(g.store[i].key), g.store[i].key>>
        ELSE <<g.store[i].key>>)
       \o registrationOrder(g, sp, i + 1)

\* the first declaration of the sequence that is in the pool
firstOf(declarations, pool) ==
  declarations[CHOOSE i \in DOMAIN declarations :
                 /\ declarations[i] \in pool
                 /\ \A j \in 1..(i - 1) : declarations[j] \notin pool]

\* the pending declarations whose dependencies have all been emitted
readyOf(g, sp, pending) ==
  {d \in pending : (DependsOn(g, sp, d) \cap pending) \subseteq {d}}

\* what is emitted next: the ready declaration registered first; when a cycle
\* leaves nothing ready, the pending declaration registered first
nextOf(g, sp, pending, ready) ==
  firstOf(registrationOrder(g, sp, 1), IF ready = {} THEN pending ELSE ready)

RECURSIVE emitInOrder(_, _, _, _)
\* the topological order of the pending declarations, ties broken by
\* registration order
emitInOrder(g, sp, pending, out) ==
  IF pending = {} THEN out
  ELSE emitInOrder(g, sp,
         pending \ {nextOf(g, sp, pending, readyOf(g, sp, pending))},
         Append(out, nextOf(g, sp, pending, readyOf(g, sp, pending))))

\* generate(outputKind, nameFilter): the order the closed set is emitted in
generateOrder(g, sp, nameFilter) ==
  emitInOrder(g, sp, genGenerate(g, sp, nameFilter), <<>>)

----------------------------------------------------------------------------
(* JsonSchemaGen: the source that generate("Schema") emits.  An emitted     *)
(* type is a record [kind, ...]; an option is a sequence of at most one     *)
(* element.  A `type` written as an array is kept under the key `types`; a  *)
(* default is JsonNull or JsonString(v).                                    *)

JsonNull == [json |-> "null"]
JsonString(value) == [json |-> "string", value |-> value]

None == <<>>
Some(value) == <<value>>

onPrimitive(kind) == [kind |-> kind]
onRef(name) == [kind |-> "Ref", name |-> name]
onArray(item) == [kind |-> "Array", of |-> item]
onUnion(members) == [kind |-> "Union", members |-> members]
onObject(fields) == [kind |-> "Struct", fields |-> fields]
onBrand(source, name) == [kind |-> "Brand", of |-> source, brand |-> name]
NullOr(source) == [kind |-> "NullOr", of |-> source]
optionalKey(source) == [kind |-> "OptionalKey", of |-> source]
withDecodingDefault(source, value) ==
  [kind |-> "WithDecodingDefault", of |-> source, default |-> value]

\* the first element of a `types` list that is not "null"
firstNonNull(types) == SelectSeq(types, LAMBDA t : t # "null")[1]

\* a mutation of cleanupSchema: the null of a type list is dropped without
\* setting the nullable flag
cleanupSchemaTypeOnly(schema) ==
  IF "types" \in DOMAIN schema /\ "null" \in SeqSet(schema.types)
  THEN ("type" :> firstNonNull(schema.types))
       @@ [k \in DOMAIN schema \ {"types"} |-> schema[k]]
  ELSE schema

\* cleanupSchema: a type list holding "null" becomes the remaining type with
\* the nullable flag set
cleanupSchema(schema) ==
  IF "types" \in DOMAIN schema /\ "null" \in SeqSet(schema.types)
  THEN ("type" :> firstNonNull(schema.types)) @@ ("nullable" :> TRUE)
       @@ [k \in DOMAIN schema \ {"types"} |-> schema[k]]
  ELSE schema

isNull(schema) == "type" \in DOMAIN schema /\ schema.type = "null"

withoutNull(members) == SelectSeq(members, LAMBDA m : ~isNull(m))

\* what is left of an anyOf once its null members are removed
remainderOf(schema, rest) ==
  IF Len(rest) = 0 THEN [type |-> "null"]
  ELSE IF Len(rest) = 1 THEN rest[1]
  ELSE [k \in DOMAIN schema |-> IF k = "anyOf" THEN rest ELSE schema[k]]

\* filterNullable: [nullable, schema]; nullable when a null member was removed
\* and something else is left
filterNullable(schema) ==
  IF "anyOf" \in DOMAIN schema
  THEN [nullable |-> Len(withoutNull(schema.anyOf)) \in 1..(Len(schema.anyOf) - 1),
        schema |-> remainderOf(schema, withoutNull(schema.anyOf))]
  ELSE [nullable |-> FALSE, schema |-> schema]

\* the nullable flag of a cleaned-up property schema
isNullable(schema) ==
  \/ filterNullable(schema).nullable
  \/ ("nullable" \in DOMAIN schema /\ schema.nullable = TRUE)

defaultOf(schema) == IF "default" \in DOMAIN schema THEN Some(schema.default) ELSE None

\* a mutation of toSourceRef: a pointer is turned into a reference wherever it
\* points to
toSourceRefAnywhere(ref) == Some(onRef(identifier(ref.name)))

\* a pointer in type position: a reference by name, nothing if it is not local
toSourceRef(ref) ==
  IF ~ref.local THEN None ELSE Some(onRef(identifier(ref.name)))

toSourcePrimitive(type) ==
  CASE type = "string" -> onPrimitive("String")
    [] type = "integer" -> onPrimitive("Int")
    [] type = "number" -> onPrimitive("Number")
    [] type = "boolean" -> onPrimitive("Boolean")
    [] type = "null" -> onPrimitive("Null")
    [] OTHER -> onPrimitive("Unknown")

\* the constraints of a string that become checks, in the order the checks are
\* emitted in
StringChecks == <<"minLength", "maxLength", "pattern">>

RECURSIVE checksIn(_, _)
\* one check per listed key the fragment has, in the order of the list
checksIn(schema, keys) ==
  IF keys = <<>> THEN <<>>
  ELSE (IF Head(keys) \in DOMAIN schema /\ Head(keys) \in SeqSet(StringChecks)
        THEN <<[check |-> Head(keys), value |-> schema[Head(keys)]]>>
        ELSE <<>>)
       \o checksIn(schema, Tail(keys))

\* a mutation of stringChecks: the checks follow the keys of the fragment; the
\* document order of a fragment's keys is carried under `keys`
stringChecksInKeyOrder(schema) ==
  checksIn(schema, IF "keys" \in DOMAIN schema THEN schema.keys ELSE StringChecks)

\* the checks of a string: minLength, maxLength, pattern
stringChecks(schema) == checksIn(schema, StringChecks)

\* format "uuid" adds a check of the UUID shape
formatChecks(schema) ==
  IF "format" \in DOMAIN schema /\ schema.format = "uuid"
  THEN <<[check |-> "isUUID"]>>
  ELSE <<>>

\* base.pipe(check, ...): the base itself when there is no check
onPipe(base, checks) ==
  IF checks = <<>> THEN base ELSE [kind |-> "Pipe", of |-> base, checks |-> checks]

\* a string: a binary one is a Blob and has no checks
toSourceString(schema) ==
  IF "format" \in DOMAIN schema /\ schema.format = "binary"
  THEN [kind |-> "InstanceOf", of |-> "Blob"]
  ELSE onPipe(onPrimitive("String"), formatChecks(schema) \o stringChecks(schema))

RECURSIVE toSource(_)
RECURSIVE toSourceAll(_)
\* the emitted types of the members of a union, the absent ones left out
toSourceAll(members) ==
  IF members = <<>> THEN <<>>
  ELSE toSource(Head(members)) \o toSourceAll(Tail(members))

\* an array whose item type is absent is absent
arrayOf(item) == IF item = None THEN None ELSE Some(onArray(item[1]))

unionOf(members) ==
  IF members = <<>> THEN None
  ELSE IF Len(members) = 1 THEN Some(members[1])
  ELSE Some(onUnion(members))

\* toSource in type position, by first match: $ref, anyOf, type
toSource(schema) ==
  IF "$ref" \in DOMAIN schema THEN toSourceRef(schema["$ref"])
  ELSE IF "anyOf" \in DOMAIN schema THEN unionOf(toSourceAll(schema.anyOf))
  ELSE IF "type" \in DOMAIN schema /\ schema.type = "array"
  THEN arrayOf(IF "items" \in DOMAIN schema THEN toSource(schema.items)
               ELSE Some(onPrimitive("Unknown")))
  ELSE IF "type" \in DOMAIN schema /\ schema.type = "string"
  THEN Some(toSourceString(schema))
  ELSE IF "type" \in DOMAIN schema THEN Some(toSourcePrimitive(schema.type))
  ELSE Some(onPrimitive("Unknown"))

\* a mutation of optionalProperty: a property that is not nullable may only be
\* absent
optionalPropertyAbsentOnly(source, nullable) ==
  IF nullable THEN optionalKey(NullOr(source)) ELSE optionalKey(source)

\* a property that is not required: it may be absent or null
optionalProperty(source, nullable) == optionalKey(NullOr(source))

\* a mutation of nullableProperty: the nullable flag is dropped
nullablePropertyDropped(source) == source

\* a required nullable property
nullableProperty(source) == NullOr(source)

\* a required nullable property whose default is null
nullDefaultProperty(source) == withDecodingDefault(NullOr(source), JsonNull)

\* a required property with a default that is not null
defaultProperty(source, value) == withDecodingDefault(source, value)

\* onProperty: the wrapper of a property, by first match
onProperty(source, isOptional, nullable, default) ==
  IF isOptional THEN optionalProperty(source, nullable)
  ELSE IF nullable /\ default = Some(JsonNull) THEN nullDefaultProperty(source)
  ELSE IF nullable THEN nullableProperty(source)
  ELSE IF default # None THEN defaultProperty(source, default[1])
  ELSE source

\* the type of a property before its wrapper: the brand of an identifier-shaped
\* key, else the type of its schema with the null members removed
propertyType(key, source, parentName) ==
  IF source # None /\ isIdField(key)
  THEN Some(onRef(brandNameForId(key, parentName)))
  ELSE source

\* one property of a struct: nothing when its type is absent
propertyOf(key, schema, type, isOptional) ==
  IF type = None THEN <<>>
  ELSE <<[key |-> key,
          source |-> onProperty(type[1], isOptional, isNullable(schema),
                                defaultOf(schema))]>>

RECURSIVE propertiesSource(_, _, _)
\* the properties of a struct, in document order
propertiesSource(properties, required, parentName) ==
  IF properties = <<>> THEN <<>>
  ELSE propertyOf(Head(properties).key,
                  cleanupSchema(Head(properties).value),
                  propertyType(Head(properties).key,
                    toSource(filterNullable(cleanupSchema(Head(properties).value)).schema),
                    parentName),
                  Head(properties).key \notin SeqSet(required))
       \o propertiesSource(Tail(properties), required, parentName)

requiredOf(schema) == IF "required" \in DOMAIN schema THEN schema.required ELSE <<>>

RECURSIVE brandsOf(_, _)
\* the brands the properties of a struct use: [name, source], in document order
brandsOf(properties, parentName) ==
  IF properties = <<>> THEN <<>>
  ELSE (IF isIdField(Head(properties).key)
           /\ toSource(filterNullable(cleanupSchema(Head(properties).value)).schema) # None
        THEN <<[name |-> brandNameForId(Head(properties).key, parentName),
                source |-> toSource(filterNullable(
                             cleanupSchema(Head(properties).value)).schema)[1]]>>
        ELSE <<>>)
       \o brandsOf(Tail(properties), parentName)

\* the brand registry: the names of the brand declarations emitted so far
brandRegistry(out) ==
  {out[i].name : i \in {j \in DOMAIN out : out[j].source.kind = "Brand"}}

\* a mutation of registerBrand: the registry is not consulted
registerBrandAgain(out, brand) ==
  Append(out, [name |-> brand.name, source |-> onBrand(brand.source, brand.name)])

\* the declaration of a brand, emitted unless the registry holds its name
registerBrand(out, brand) ==
  IF brand.name \in brandRegistry(out) THEN out
  ELSE Append(out, [name |-> brand.name, source |-> onBrand(brand.source, brand.name)])

RECURSIVE registerBrands(_, _)
registerBrands(out, brands) ==
  IF brands = <<>> THEN out
  ELSE registerBrands(registerBrand(out, Head(brands)), Tail(brands))

\* the top-level source of a registered schema: a struct for an object with
\* properties, a tagged error over its body struct for a flagged one, the type
\* itself otherwise; nothing when the type is absent
topLevelSource(g, sp, name, schema) ==
  IF IsTaggedError(g, sp, name) /\ "properties" \in DOMAIN schema
  THEN <<[name |-> BodyName(name),
          source |-> onObject(propertiesSource(schema.properties, requiredOf(schema),
                                               name))],
         [name |-> name,
          source |-> [kind |-> "TaggedError"] @@ TaggedErrorDeclaration(name)]>>
  ELSE IF "properties" \in DOMAIN schema
  THEN <<[name |-> name,
          source |-> onObject(propertiesSource(schema.properties, requiredOf(schema),
                                               name))]>>
  ELSE IF toSource(filterNullable(schema).schema) = None THEN <<>>
  ELSE <<[name |-> name,
          source |-> IF isNullable(schema)
                     THEN NullOr(toSource(filterNullable(schema).schema)[1])
                     ELSE toSource(filterNullable(schema).schema)[1]]>>

RECURSIVE emitFrom(_, _, _, _)
\* the store walked in registration order: the brands of a schema not emitted
\* yet, then the schema
emitFrom(g, sp, i, out) ==
  IF i > Len(g.store) THEN out
  ELSE emitFrom(g, sp, i + 1,
         registerBrands(out,
           IF "properties" \in DOMAIN cleanupSchema(g.store[i].value)
           THEN brandsOf(cleanupSchema(g.store[i].value).properties, g.store[i].key)
           ELSE <<>>)
         \o topLevelSource(g, sp, g.store[i].key, cleanupSchema(g.store[i].value)))

\* generate("Schema"): every registered schema, in registration order
generateAll(g, sp) == emitFrom(g, sp, 1, <<>>)

\* the registered name a declaration belongs to: the declaration's own name, or
\* the flagged name whose body struct it is
ownerOf(g, sp, declaration) ==
  IF MapHas(g.store, declaration) THEN declaration
  ELSE CHOOSE name \in MapKeys(g.store) :
         IsTaggedError(g, sp, name) /\ BodyName(name) = declaration

\* the source of one declaration
declarationOf(g, sp, declaration, owner) ==
  SelectSeq(topLevelSource(g, sp, owner, cleanupSchema(MapGet(g.store, owner))),
            LAMBDA entry : entry.name = declaration)

\* the brands the struct of a declaration uses
brandsFor(g, sp, declaration, owner) ==
  IF "properties" \in DOMAIN cleanupSchema(MapGet(g.store, owner))
     /\ declaration = (IF IsTaggedError(g, sp, owner) THEN BodyName(owner) ELSE owner)
  THEN brandsOf(cleanupSchema(MapGet(g.store, owner)).properties, owner)
  ELSE <<>>

\* the registry of the instance is consulted before a brand is emitted
notRegistered(declarations, registry) ==
  SelectSeq(declarations, LAMBDA brand : brand.name \notin registry)

RECURSIVE emitOrdered(_, _, _, _, _)
\* the declarations of one generate call in emission order, each struct after
\* the brands it is the first to use
emitOrdered(g, sp, order, registry, out) ==
  IF order = <<>> THEN out
  ELSE emitOrdered(g, sp, Tail(order), registry,
         registerBrands(out,
           notRegistered(brandsFor(g, sp, Head(order), ownerOf(g, sp, Head(order))),
                         registry))
         \o declarationOf(g, sp, Head(order), ownerOf(g, sp, Head(order))))

\* gen.generate("Schema", nameFilter): the text of one module's declarations
generateSource(g, sp, nameFilter, registry) ==
  emitOrdered(g, sp, generateOrder(g, sp, nameFilter), registry, <<>>)

----------------------------------------------------------------------------
(* OpenApi.ts handlePath: the callback run for one method of one path.      *)
(* processPath (the path template and its ids) and the description do not   *)
(* reach the schema registry or the partitioner and are left out.           *)

\* holder.content?.[mediaType]?.schema
HasSchema(holder, mediaType) ==
  /\ "content" \in DOMAIN holder
  /\ mediaType \in DOMAIN holder.content
  /\ "schema" \in DOMAIN holder.content[mediaType]

RECURSIVE resolveResponse(_, _, _)
\* while ("$ref" in response) response = resolveRef(response.$ref)
resolveResponse(sp, response, depth) ==
  IF "$ref" \in DOMAIN response /\ depth > 0
  THEN resolveResponse(sp, resolveRef(sp, response["$ref"]), depth - 1)
  ELSE response

RECURSIVE expandProperties(_, _, _, _)
\* a parameter whose schema has properties: one entry `name[prop]` per property
expandProperties(acc, parameter, properties, required) ==
  IF properties = <<>> THEN acc
  ELSE LET name == Head(properties).key
           adjustedName == parameter.name \o <<"[">> \o name \o <<"]">>
           acc1 == [acc EXCEPT
                      !.properties = MapSet(@, adjustedName, Head(properties).value),
                      !.required = IF \E i \in DOMAIN required : required[i] = name
                                   THEN Append(@, adjustedName) ELSE @,
                      !.added = Append(@, adjustedName)]
       IN expandProperties(acc1, parameter, Tail(properties), required)

\* validParameters.forEach: acc is [properties, required, urlParams, headers]
parameterEntry(sp, acc, parameter0) ==
  LET parameter == IF "$ref" \in DOMAIN parameter0
                   THEN resolveRef(sp, parameter0["$ref"]) ELSE parameter0
  IN IF parameter.in = "path" \/ parameter.in = "cookie" THEN acc
     ELSE LET paramSchema == parameter.schema
              start == [properties |-> acc.properties, required |-> acc.required,
                        added |-> <<>>]
              done ==
                IF "properties" \in DOMAIN paramSchema
                THEN expandProperties(start, parameter, paramSchema.properties,
                       IF "required" \in DOMAIN paramSchema
                       THEN paramSchema.required ELSE <<>>)
                ELSE [properties |-> MapSet(acc.properties, parameter.name, paramSchema),
                      required |-> IF "required" \in DOMAIN parameter /\ parameter.required
                                   THEN Append(acc.required, parameter.name)
                                   ELSE acc.required,
                      added |-> <<parameter.name>>]
          IN [properties |-> done.properties,
              required |-> done.required,
              urlParams |-> IF parameter.in = "query"
                            THEN acc.urlParams \o done.added ELSE acc.urlParams,
              headers |-> IF parameter.in = "header"
                          THEN acc.headers \o done.added ELSE acc.headers]

RECURSIVE parametersFold(_, _, _)
parametersFold(sp, acc, parameters) ==
  IF parameters = <<>> THEN acc
  ELSE parametersFold(sp, parameterEntry(sp, acc, Head(parameters)), Tail(parameters))

\* operation.parameters?.filter(_ => _.in !== "path" && _.in !== "cookie") ?? []
validParametersOf(operation) ==
  IF "parameters" \in DOMAIN operation
  THEN SelectSeq(operation.parameters,
                 LAMBDA q : ~("in" \in DOMAIN q /\ (q.in = "path" \/ q.in = "cookie")))
  ELSE <<>>

registeredParams(st, r, paramsOptional) ==
  [st EXCEPT !.gen = r.gen, !.op.params = r.name, !.op.paramsOptional = paramsOptional]

\* lines 187-195, on the schema the parameters were folded into
foldedParameters(sp, st, schemaId, acc) ==
  IF Len(acc.properties) > 0
  THEN registeredParams(
         [st EXCEPT !.op.urlParams = acc.urlParams, !.op.headers = acc.headers],
         addSchema(st.gen, sp, schemaId \o Word_Params,
                   ObjectSchema(acc.properties, acc.required)),
         Len(acc.required) = 0)
  ELSE [st EXCEPT !.op.urlParams = acc.urlParams, !.op.headers = acc.headers]

\* lines 147-196: the Params schema of the operation
handleParameters(sp, st, schemaId, operation) ==
  IF Len(validParametersOf(operation)) = 0 THEN st
  ELSE foldedParameters(sp, st, schemaId,
         parametersFold(sp, [properties |-> <<>>, required |-> <<>>,
                             urlParams |-> <<>>, headers |-> <<>>],
                        validParametersOf(operation)))

registeredPayload(st, r, formData) ==
  [st EXCEPT !.gen = r.gen, !.op.payload = r.name, !.op.payloadFormData = formData]

\* lines 197-212: the Request schema of the operation
handleRequestBody(sp, st, schemaId, operation) ==
  IF "requestBody" \in DOMAIN operation
     /\ HasSchema(operation.requestBody, "application/json")
  THEN registeredPayload(st,
         addSchema(st.gen, sp, schemaId \o Word_Request,
                   operation.requestBody.content["application/json"].schema),
         FALSE)
  ELSE IF "requestBody" \in DOMAIN operation
          /\ "content" \in DOMAIN operation.requestBody
          /\ "multipart/form-data" \in DOMAIN operation.requestBody.content
  THEN registeredPayload(st,
         addSchema(st.gen, sp, schemaId \o Word_Request,
                   operation.requestBody.content["multipart/form-data"].schema),
         TRUE)
  ELSE st

RECURSIVE mergeAllOfMembers(_, _, _)
\* lines 244-250: fold the allOf members of an error schema into `merged`
mergeAllOfMembers(sp, merged, members) ==
  IF members = <<>> THEN merged
  ELSE LET member == Head(members)
           resolved == IF "$ref" \in DOMAIN member
                       THEN resolveRef(sp, member["$ref"]) ELSE member
           m1 == ObjectAssign(merged, resolved)
           m2 == [m1 EXCEPT !.properties =
                    MapAssign(@, IF "properties" \in DOMAIN resolved
                                 THEN resolved.properties ELSE <<>>)]
           m3 == [m2 EXCEPT !.required =
                    @ \o (IF "required" \in DOMAIN resolved
                          THEN resolved.required ELSE <<>>)]
       IN mergeAllOfMembers(sp, m3, Tail(members))

\* lines 239-242: the error schema with its pointer followed once
errorSchemaSource(sp, schema) ==
  IF "$ref" \in DOMAIN schema THEN resolveRef(sp, schema["$ref"]) ELSE schema

\* lines 239-252: the schema the classification of an error response looks at
errorSchemaOf(sp, schema) ==
  LET errorSchema == errorSchemaSource(sp, schema)
  IN IF "allOf" \in DOMAIN errorSchema
     THEN mergeAllOfMembers(sp, [properties |-> <<>>, required |-> <<>>],
                            errorSchema.allOf)
     ELSE errorSchema

\* line 253: the error is decoded through a body struct
isObjectError(sp, schema) == "properties" \in DOMAIN errorSchemaOf(sp, schema)

\* a mutation of isSuccessMajor: the boundary one hundred too high
isSuccessMajorBelow5(statusMajorNumber) == statusMajorNumber < 5

\* line 234: a status whose first digit is below 4 is a success
isSuccessMajor(statusMajorNumber) == statusMajorNumber < 4

\* a mutation of isVoidMajor: every numeric status without content is void
isVoidMajorAny(statusMajor) == statusMajor # NaN

\* line 269: a status without content is void when its first digit is below 4
isVoidMajor(statusMajor) == statusMajor # NaN /\ statusMajor < 4

\* Number(status[0]); status[0] of "" is undefined, and Number(undefined) is NaN
majorOf(status) == IF Len(status) = 0 THEN NaN ELSE NumberOfChar(status[1])

\* lines 226-256: what the status makes of the name addSchema returned.
\* returned is TRUE where the callback returns before the stream and void checks
classifyJson(sp, st, schemaName, status, schema) ==
  IF status = Word_default
  THEN [st EXCEPT !.defaultSchema = schemaName, !.returned = TRUE]
  ELSE IF majorOf(status) = NaN
  THEN [st EXCEPT !.returned = TRUE]
  ELSE IF isSuccessMajor(majorOf(status))
  THEN [st EXCEPT !.op.successSchemas = MapSet(@, toLowerCase(status), schemaName)]
  ELSE [st EXCEPT
          !.gen = markAsError(@, schemaName),
          !.op.errorSchemas = MapSet(@, toLowerCase(status), schemaName),
          !.op.objectErrorSchemas =
             IF isObjectError(sp, schema) THEN @ \cup {schemaName} ELSE @]

\* r is what addSchema returned: the registry and the name
registeredJson(sp, st, r, status, schema) ==
  classifyJson(sp, [st EXCEPT !.gen = r.gen], r.name, status, schema)

\* a mutation of jsonResponse: the schema is named after the operation alone
jsonResponseNoStatus(sp, st, schemaId, status, schema) ==
  registeredJson(sp, st, addSchema(st.gen, sp, schemaId, schema), status, schema)

\* lines 219-257: a response with an application/json schema
jsonResponse(sp, st, schemaId, status, schema) ==
  registeredJson(sp, st, addSchema(st.gen, sp, schemaId \o status, schema),
                 status, schema)

registeredStream(st, r) == [st EXCEPT !.gen = r.gen, !.op.streamSchema = r.name]

\* lines 258-266: the first text/event-stream schema of the operation
streamResponse(sp, st, schemaId, response) ==
  IF st.op.streamSchema = Undefined /\ HasSchema(response, "text/event-stream")
  THEN registeredStream(st,
         addSchema(st.gen, sp, schemaId \o Word_StreamEvent,
                   response.content["text/event-stream"].schema))
  ELSE st

\* lines 267-272: a response without content
voidResponse(st, status, response) ==
  IF "content" \notin DOMAIN response /\ isVoidMajor(majorOf(status))
  THEN [st EXCEPT !.op.voidSchemas = SeqAdd(@, toLowerCase(status))]
  ELSE st

\* lines 258-272: what follows the JSON branch unless it returned
afterJson(sp, st, schemaId, status, response) ==
  IF st.returned THEN st
  ELSE voidResponse(streamResponse(sp, st, schemaId, response), status, response)

\* lines 219-273, on the response the pointer chain ends at
resolvedResponse(sp, st, schemaId, status, response) ==
  afterJson(sp,
            IF HasSchema(response, "application/json")
            THEN jsonResponse(sp, st, schemaId, status,
                              response.content["application/json"].schema)
            ELSE st,
            schemaId, status, response)

\* lines 215-273: the callback of Object.entries(operation.responses).forEach
responseEntry(sp, st, schemaId, status, response0) ==
  resolvedResponse(sp, [st EXCEPT !.returned = FALSE], schemaId, status,
                   resolveResponse(sp, response0, MaxResolveDepth))

RECURSIVE responsesFold(_, _, _, _)
responsesFold(sp, st, schemaId, responses) ==
  IF responses = <<>> THEN st
  ELSE responsesFold(sp,
         responseEntry(sp, st, schemaId, Head(responses).key, Head(responses).value),
         schemaId, Tail(responses))

\* line 275: the default response stands in when no success schema was recorded
usesDefault(successSchemas, defaultSchema) ==
  Len(successSchemas) = 0 /\ defaultSchema # Undefined

NamesOf(name) == IF name = Undefined THEN {} ELSE {name}

\* lines 278-283
withSchemaNames(op, defaultSchema) ==
  [op EXCEPT !.schemaNames =
     NamesOf(op.params) \cup NamesOf(op.payload)
       \cup MapValues(op.successSchemas) \cup MapValues(op.errorSchemas)
       \cup NamesOf(defaultSchema) \cup NamesOf(op.streamSchema)]

\* lines 275-284: the end of the callback
finishOperation(st) ==
  [op |-> withSchemaNames(
            IF usesDefault(st.op.successSchemas, st.defaultSchema)
            THEN [st.op EXCEPT !.successSchemas = MapSet(@, Word_2xx, st.defaultSchema)]
            ELSE st.op,
            st.defaultSchema),
   gen |-> st.gen]

\* lines 117-119
operationIdOf(entry) ==
  IF "operationId" \in DOMAIN entry.operation /\ entry.operation.operationId # <<>>
  THEN camelize(entry.operation.operationId)
  ELSE toUpperCase(entry.method) \o entry.path

\* line 143
schemaIdOf(entry) ==
  identifier(IF "operationId" \in DOMAIN entry.operation
             THEN entry.operation.operationId ELSE entry.path)

\* lines 120-142: the ParsedOperation before anything is registered
startOperation(g, entry) ==
  [op |-> [id |-> operationIdOf(entry), method |-> entry.method,
           tags |-> IF "tags" \in DOMAIN entry.operation THEN entry.operation.tags
                    ELSE <<Word__untagged>>,
           pathTemplate |-> entry.path,
           urlParams |-> <<>>, headers |-> <<>>, payloadFormData |-> FALSE,
           successSchemas |-> <<>>, errorSchemas |-> <<>>,
           objectErrorSchemas |-> {}, voidSchemas |-> <<>>,
           paramsOptional |-> TRUE, schemaNames |-> {},
           params |-> Undefined, payload |-> Undefined, streamSchema |-> Undefined],
   gen |-> g, defaultSchema |-> Undefined, returned |-> FALSE]

walkOperation(sp, st, schemaId, operation) ==
  finishOperation(
    responsesFold(sp,
      handleRequestBody(sp, handleParameters(sp, st, schemaId, operation),
                        schemaId, operation),
      schemaId,
      IF "responses" \in DOMAIN operation THEN operation.responses ELSE <<>>))

\* lines 114-285: one operation of the document becomes one ParsedOperation
handleOperation(sp, g, entry) ==
  walkOperation(sp, startOperation(g, entry), schemaIdOf(entry), entry.operation)

----------------------------------------------------------------------------
(* layerTransformerSchema: the implementation and the interface of a module *)

\* a mutation of successStatusCode: the key is never normalised
successStatusCodeLiteral(singleSuccessCode, status) == status

\* line 526: the status key of a success handler
successStatusCode(singleSuccessCode, status) ==
  IF singleSuccessCode /\ startsWith(status, "2") THEN Word_2xx ELSE status

\* lines 529-539: the handler of one error status
errorDecode(operation, status, schema) ==
  IF schema \in operation.objectErrorSchemas
  THEN [key |-> status, kind |-> "ErrorTagged",
        decode |-> BodyName(schema), fail |-> schema]
  ELSE [key |-> status, kind |-> "ErrorPlain", decode |-> schema, fail |-> schema]

Word_orElse == <<"o","r","E","l","s","e">>

\* lines 523-543: the entries of matchStatus, in the order they are pushed
decodesOf(operation) ==
  LET singleSuccessCode == Len(operation.successSchemas) = 1
  IN [i \in DOMAIN operation.successSchemas |->
        [key |-> successStatusCode(singleSuccessCode, operation.successSchemas[i].key),
         kind |-> "Success",
         decode |-> operation.successSchemas[i].value,
         fail |-> Undefined]]
     \o [i \in DOMAIN operation.errorSchemas |->
           errorDecode(operation, operation.errorSchemas[i].key,
                       operation.errorSchemas[i].value)]
     \o [i \in DOMAIN operation.voidSchemas |->
           [key |-> operation.voidSchemas[i], kind |-> "Void",
            decode |-> Undefined, fail |-> Undefined]]
     \o <<[key |-> Word_orElse, kind |-> "UnexpectedStatus",
           decode |-> Undefined, fail |-> Undefined]>>

\* lines 503-573: one method of the implementation
operationToImpl(operation) ==
  [id |-> operation.id,
   payload |-> operation.payload,
   payloadFormData |-> operation.payloadFormData,
   decodes |-> decodesOf(operation)]

\* lines 575-615: the streaming method of an operation with a stream schema
operationToStreamImpl(operation) ==
  [id |-> operation.id \o <<"S","t","r","e","a","m">>,
   payload |-> IF operation.payloadFormData THEN Undefined ELSE operation.payload,
   payloadFormData |-> FALSE,
   decodes |-> <<[key |-> Undefined, kind |-> "Stream",
                  decode |-> operation.streamSchema, fail |-> Undefined]>>]

RECURSIVE operationsToImpl(_)
\* lines 485-501
operationsToImpl(ops) ==
  IF ops = <<>> THEN <<>>
  ELSE <<operationToImpl(Head(ops))>>
       \o (IF Head(ops).streamSchema # Undefined
           THEN <<operationToStreamImpl(Head(ops))>> ELSE <<>>)
       \o operationsToImpl(Tail(ops))

\* lines 453-471: the names the interface method of an operation mentions
operationToMethod(operation) ==
  [id |-> operation.id,
   params |-> operation.params,
   payload |-> operation.payload,
   success |-> [i \in DOMAIN operation.successSchemas |->
                  operation.successSchemas[i].value],
   errors |-> [i \in DOMAIN operation.errorSchemas |->
                 operation.errorSchemas[i].value]]

\* lines 473-482: the names the interface method of a streaming operation mentions
operationToStreamMethod(operation) ==
  [id |-> operation.id \o <<"S","t","r","e","a","m">>,
   params |-> operation.params,
   payload |-> operation.payload,
   success |-> <<operation.streamSchema>>,
   errors |-> [i \in DOMAIN operation.errorSchemas |->
                 operation.errorSchemas[i].value]]

RECURSIVE operationsToInterface(_)
\* lines 419-431
operationsToInterface(ops) ==
  IF ops = <<>> THEN <<>>
  ELSE <<operationToMethod(Head(ops))>>
       \o (IF Head(ops).streamSchema # Undefined
           THEN <<operationToStreamMethod(Head(ops))>> ELSE <<>>)
       \o operationsToInterface(Tail(ops))

----------------------------------------------------------------------------
(* OpenApi.ts generate: the walk, the tag groups, the shared set, the modules *)

\* line 293: the tag an operation is grouped under
primaryTag(op) == IF Len(op.tags) > 0 THEN op.tags[1] ELSE Word__untagged

RECURSIVE groupByTag(_, _)
\* lines 291-300
groupByTag(groups, ops) ==
  IF ops = <<>> THEN groups
  ELSE LET op == Head(ops)
           tag == primaryTag(op)
           group == IF MapHas(groups, tag) THEN MapGet(groups, tag) ELSE <<>>
       IN groupByTag(MapSet(groups, tag, Append(group, op)), Tail(ops))

\* lines 302-311
schemaNamesOfGroup(ops) == UNION {ops[i].schemaNames : i \in DOMAIN ops}

\* lines 302-311
tagSchemaNamesOf(groups) ==
  [i \in DOMAIN groups |->
     [key |-> groups[i].key, value |-> schemaNamesOfGroup(groups[i].value)]]

\* lines 313-328: the names that more than one tag uses
commonNamesOf(tagNames) ==
  LET allSchemaNames == UNION {tagNames[i].value : i \in DOMAIN tagNames}
  IN {name \in allSchemaNames :
        Cardinality({i \in DOMAIN tagNames : name \in tagNames[i].value}) > 1}

\* a mutation of reexportsOf: the body structs of the shared tagged errors are
\* not imported
reexportsOfNamesOnly(schemaNamesOfTag, ops, common) ==
  IF Cardinality(common) > 0 THEN {n \in schemaNamesOfTag : n \in common} ELSE {}

\* lines 351-362: what a tag module imports from ./_common and re-exports
reexportsOf(schemaNamesOfTag, ops, common) ==
  LET commonReexports == IF Cardinality(common) > 0
                         THEN {n \in schemaNamesOfTag : n \in common} ELSE {}
      errorBodyNames ==
        {BodyName(name) : name \in
           {n \in UNION {ops[i].objectErrorSchemas : i \in DOMAIN ops} : n \in common}}
  IN commonReexports \cup errorBodyNames

\* lines 342-348
tagOnlySchemasOf(schemaNamesOfTag, common) ==
  {name \in schemaNamesOfTag : name \notin common}

\* line 284: operations.push(op), with the registry the callback leaves
Walked(r) == operations' = Append(operations, r.op) /\ gen' = r.gen

\* lines 287, 111-285: Object.entries(spec.paths).forEach(handlePath), one
\* operation per step; spec.paths is kept flattened, one entry per method of a
\* path, in the order the two forEach loops visit them
HandlePath ==
  /\ pc = "walk"
  /\ cursor <= Len(spec.paths)
  /\ Walked(handleOperation(spec, gen, spec.paths[cursor]))
  /\ cursor' = cursor + 1
  /\ pc' = IF cursor = Len(spec.paths) THEN "group" ELSE "walk"
  /\ UNCHANGED <<spec, tagGroups, tagSchemaNames, commonSchemaNames, modules,
                  calls, output, emittedBrands, host>>

\* lines 291-328: tagGroups, tagSchemaNames, commonSchemaNames
GroupByTag ==
  /\ pc = "group"
  /\ tagGroups' = groupByTag(<<>>, operations)
  /\ tagSchemaNames' = tagSchemaNamesOf(tagGroups')
  /\ commonSchemaNames' = commonNamesOf(tagSchemaNames')
  /\ pc' = "common"
  /\ UNCHANGED <<spec, cursor, gen, operations, modules, calls, output, emittedBrands, host>>

\* lines 330-339: the shared module, when a name is shared
EmitCommon ==
  /\ pc = "common"
  /\ modules' =
       IF Cardinality(commonSchemaNames) > 0
       THEN MapSet(modules, Word__common,
              [source |-> [reexports |-> {},
                           declarations |-> genGenerate(gen, spec, commonSchemaNames),
                           order |-> generateOrder(gen, spec, commonSchemaNames),
                           text |-> generateSource(gen, spec, commonSchemaNames,
                                                   emittedBrands),
                           implementation |-> <<>>,
                           types |-> <<>>],
               schemaNames |-> commonSchemaNames,
               operations |-> <<>>])
       ELSE modules
  /\ emittedBrands' =
       IF Cardinality(commonSchemaNames) > 0
       THEN emittedBrands
            \cup brandRegistry(generateSource(gen, spec, commonSchemaNames,
                                              emittedBrands))
       ELSE emittedBrands
  /\ cursor' = 1
  /\ pc' = "tags"
  /\ UNCHANGED <<spec, gen, operations, tagGroups, tagSchemaNames, commonSchemaNames,
                  calls, output, host>>

\* lines 341-385: the module of one tag group
EmitTagModule ==
  /\ pc = "tags"
  /\ cursor <= Len(tagGroups)
  /\ LET tag == tagGroups[cursor].key
         ops == tagGroups[cursor].value
         names == MapGet(tagSchemaNames, tag)
         tagOnlySchemas == tagOnlySchemasOf(names, commonSchemaNames)
     IN modules' = MapSet(modules, tag,
          [source |-> [reexports |-> reexportsOf(names, ops, commonSchemaNames),
                       declarations |-> genGenerate(gen, spec, tagOnlySchemas),
                       order |-> generateOrder(gen, spec, tagOnlySchemas),
                       text |-> generateSource(gen, spec, tagOnlySchemas,
                                               emittedBrands),
                       implementation |-> operationsToImpl(ops),
                       types |-> operationsToInterface(ops)],
           schemaNames |-> names,
           operations |-> ops])
  /\ emittedBrands' =
       emittedBrands
       \cup brandRegistry(generateSource(gen, spec,
               tagOnlySchemasOf(MapGet(tagSchemaNames, tagGroups[cursor].key),
                                commonSchemaNames),
               emittedBrands))
  /\ cursor' = cursor + 1
  /\ pc' = IF cursor = Len(tagGroups) THEN "done" ELSE "tags"
  /\ UNCHANGED <<spec, gen, operations, tagGroups, tagSchemaNames, commonSchemaNames,
                  calls, output, host>>

Next == HandlePath \/ GroupByTag \/ EmitCommon \/ EmitTagModule

----------------------------------------------------------------------------
(* JsonSchemaGen driven directly, as its tests drive it: addSchema once per *)
(* call, then generate("Schema")                                            *)

\* gen.addSchema(name, schema, context) with the document as context
AddSchema ==
  /\ pc = "add"
  /\ cursor <= Len(calls)
  /\ gen' = addSchema(gen, spec, calls[cursor].name, calls[cursor].schema).gen
  /\ cursor' = cursor + 1
  /\ UNCHANGED <<spec, pc, operations, tagGroups, tagSchemaNames, commonSchemaNames,
                  modules, calls, output, emittedBrands, host>>

\* gen.generate("Schema"), after the last call
Generate ==
  /\ pc = "add"
  /\ cursor > Len(calls)
  /\ output' = generateAll(gen, spec)
  /\ pc' = "generated"
  /\ emittedBrands' = emittedBrands \cup brandRegistry(output')
  /\ UNCHANGED <<spec, cursor, gen, operations, tagGroups, tagSchemaNames,
                  commonSchemaNames, modules, calls, host>>

NextBuild == AddSchema \/ Generate

----------------------------------------------------------------------------
(* generate invoked again in the same process, on the same document *)

\* a mutation of with: the invocation runs with the instance it is handed
withShared(instance) == instance

\* JsonSchemaGen.with: every invocation runs with a JsonSchemaGen of its own,
\* whatever the instance of the invocation before it holds
with(instance) == [gen |-> [store |-> <<>>, errors |-> {}], emittedBrands |-> {}]

\* lines 84-100, 387-391: the second invocation starts; what the first one
\* returned is kept for comparison
GenerateAgain ==
  /\ pc = "done"
  /\ previous = None
  /\ previous' = Some(modules)
  /\ gen' = with([gen |-> gen, emittedBrands |-> emittedBrands]).gen
  /\ emittedBrands' = with([gen |-> gen, emittedBrands |-> emittedBrands]).emittedBrands
  /\ operations' = <<>>
  /\ tagGroups' = <<>>
  /\ tagSchemaNames' = <<>>
  /\ commonSchemaNames' = {}
  /\ modules' = <<>>
  /\ cursor' = 1
  /\ pc' = "walk"
  /\ UNCHANGED <<spec, calls, output, args, before, files, barrelExports>>

NextTwice == Next \/ GenerateAgain

----------------------------------------------------------------------------
(* The sync command of the CLI, OpenApiJsonSchema.ts lines 130-174.  The    *)
(* document the --spec file or the --url resource holds is `spec`; a       *)
(* directory is absent or a map from file name to text.                     *)

Word_index == <<"i","n","d","e","x">>
Suffix_ts == <<".","t","s">>

\* a mutation of usageError: only the two flags together are refused
usageErrorBothOnly(specOpt, urlOpt) == specOpt # None /\ urlOpt # None

\* lines 139-144: both flags, or neither
usageError(specOpt, urlOpt) ==
  \/ specOpt # None /\ urlOpt # None
  \/ specOpt = None /\ urlOpt = None

\* line 152: fs.makeDirectory(outdir, {recursive: true})
makeDirectory(directory) == IF directory = None THEN Some(<<>>) ELSE directory

\* a mutation of writeFileString: a file that exists is left as it is
writeFileStringIfAbsent(directory, filename, text) ==
  IF MapHas(directory, filename) THEN directory ELSE MapSet(directory, filename, text)

\* fs.writeFileString(path.join(outdir, filename), text)
writeFileString(directory, filename, text) == MapSet(directory, filename, text)

\* line 157
basenameOf(tag) == IF tag = Word__common THEN Word__common ELSE toKebabCase(tag)

\* line 158
filenameOf(tag) == basenameOf(tag) \o Suffix_ts

\* lines 163-167: the export line of a tag module
barrelExportOf(tag) == [alias |-> identifier(tag), from |-> basenameOf(tag)]

\* line 170
barrelContentOf(exports) == [barrel |-> exports]

\* lines 139-144: the command refuses its flags
SyncRejected ==
  /\ pc = "sync"
  /\ usageError(args.spec, args.url)
  /\ pc' = "failed"
  /\ UNCHANGED <<spec, cursor, gen, operations, tagGroups, tagSchemaNames,
                  commonSchemaNames, modules, calls, output, emittedBrands, host>>

\* lines 146-150: the document is obtained and api.generate is called with it
SyncAccepted ==
  /\ pc = "sync"
  /\ ~usageError(args.spec, args.url)
  /\ pc' = "walk"
  /\ UNCHANGED <<spec, cursor, gen, operations, tagGroups, tagSchemaNames,
                  commonSchemaNames, modules, calls, output, emittedBrands, host>>

\* lines 152-154: generate has returned
MakeDirectory ==
  /\ pc = "done"
  /\ files' = makeDirectory(files)
  /\ barrelExports' = <<>>
  /\ cursor' = 1
  /\ pc' = IF Len(modules) = 0 THEN "index" ELSE "write"
  /\ UNCHANGED <<spec, gen, operations, tagGroups, tagSchemaNames, commonSchemaNames,
                  modules, calls, output, emittedBrands, previous, args, before>>

\* lines 156-168: one module of the result
WriteModule ==
  /\ pc = "write"
  /\ cursor <= Len(modules)
  /\ files' = Some(writeFileString(files[1], filenameOf(modules[cursor].key),
                                   modules[cursor].value.source))
  /\ barrelExports' =
       IF modules[cursor].key # Word__common
       THEN Append(barrelExports, barrelExportOf(modules[cursor].key))
       ELSE barrelExports
  /\ cursor' = cursor + 1
  /\ pc' = IF cursor = Len(modules) THEN "index" ELSE "write"
  /\ UNCHANGED <<spec, gen, operations, tagGroups, tagSchemaNames, commonSchemaNames,
                  modules, calls, output, emittedBrands, previous, args, before>>

\* lines 170-172: index.ts
WriteIndex ==
  /\ pc = "index"
  /\ files' = Some(writeFileString(files[1], Word_index \o Suffix_ts,
                                   barrelContentOf(barrelExports)))
  /\ pc' = "synced"
  /\ UNCHANGED <<spec, cursor, gen, operations, tagGroups, tagSchemaNames,
                  commonSchemaNames, modules, calls, output, emittedBrands,
                  previous, args, before, barrelExports>>

NextSync ==
  \/ SyncRejected
  \/ SyncAccepted
  \/ Next
  \/ MakeDirectory
  \/ WriteModule
  \/ WriteIndex

----------------------------------------------------------------------------
(* The documents generate is run on *)

\* operations per document, and responses per operation
MaxOps == 2
MaxResponses == 2

Name_Err == <<"E","r","r">>
Name_Wrap == <<"W","r","a","p">>
Name_Alias == <<"A","l","i","a","s">>
Name_Code == <<"C","o","d","e">>
Name_Node == <<"N","o","d","e">>
Name_NotFound == <<"N","o","t","F","o","u","n","d">>
Key_message == <<"m","e","s","s","a","g","e">>
Key_detail == <<"d","e","t","a","i","l">>
Key_code == <<"c","o","d","e">>
Key_next == <<"n","e","x","t">>
Key_limit == <<"l","i","m","i","t">>
Key_petId == <<"p","e","t","I","d">>
Tag_pets == <<"p","e","t","s">>
Tag_users == <<"u","s","e","r","s">>
Method_get == <<"g","e","t">>
Status_200 == <<"2","0","0">>
Status_301 == <<"3","0","1">>
Status_404 == <<"4","0","4">>
Status_2XX == <<"2","X","X">>

InlineObject == ObjectSchema(<<Prop(Key_message, StringSchema)>>, <<>>)
RefErr == RefSchema(Name_Err)
RefWrap == RefSchema(Name_Wrap)
RefAlias == RefSchema(Name_Alias)
RefNode == RefSchema(Name_Node)
AllOfObject ==
  AllOfSchema(<<RefErr, ObjectSchema(<<Prop(Key_code, StringSchema)>>, <<Key_code>>)>>)
AllOfString == AllOfSchema(<<StringSchema, [type |-> "string", minLength |-> 1]>>)

NoContent == [description |-> "none"]
JsonResponse(schema) ==
  [description |-> "json", content |-> ("application/json" :> [schema |-> schema])]
TextResponse ==
  [description |-> "text", content |-> ("text/plain" :> [schema |-> StringSchema])]
SseResponse(schema) ==
  [description |-> "sse", content |-> ("text/event-stream" :> [schema |-> schema])]
RefResponse(name) == ("$ref" :> Pointer("responses", name))

\* Err is an object, Wrap an object holding Err, Alias a pointer to Err, Code a
\* string, Node an object holding itself
Components ==
  [schemas |->
     (Name_Err :> ObjectSchema(<<Prop(Key_message, StringSchema)>>, <<Key_message>>))
     @@ (Name_Wrap :> ObjectSchema(<<Prop(Key_detail, ArraySchema(RefErr))>>, <<>>))
     @@ (Name_Alias :> RefErr)
     @@ (Name_Code :> StringSchema)
     @@ (Name_Node :> ObjectSchema(<<Prop(Key_next, RefNode)>>, <<>>)),
   responses |-> (Name_NotFound :> JsonResponse(RefErr))]

PathOf(k) == <<"/", "o", DigitChars[k + 1]>>
OperationIdOf(k) == <<"o", "p", "-", DigitChars[k + 1]>>

\* the k-th entry of spec.paths
Entry(k, operation) == [path |-> PathOf(k), method |-> Method_get, operation |-> operation]

Document(operationsOf) ==
  [paths |-> [k \in DOMAIN operationsOf |-> Entry(k, operationsOf[k])],
   components |-> Components]

Use_InlineOk == <<Prop(Status_200, JsonResponse(InlineObject))>>
Use_ErrOk == <<Prop(Status_200, JsonResponse(RefErr))>>
Use_WrapOk == <<Prop(Status_200, JsonResponse(RefWrap))>>
Use_ErrNotFound == <<Prop(Status_404, JsonResponse(RefErr))>>
Use_Nothing == <<Prop(Status_200, NoContent)>>
Use_NodeOk == <<Prop(Status_200, JsonResponse(RefNode))>>

\* operation.tags: absent, empty, one tag, two tags, and a tag named like the
\* shared module
Tags_absent == <<>>
Tags_empty == [tags |-> <<>>]
Tags_pets == [tags |-> <<Tag_pets>>]
Tags_users == [tags |-> <<Tag_users, Tag_pets>>]
Tags_common == [tags |-> <<Word__common>>]

\* what one operation of a multi-operation document answers with, and its tags
PartitionShapes ==
  {Use_InlineOk, Use_ErrOk, Use_WrapOk, Use_ErrNotFound, Use_Nothing, Use_NodeOk}
  \X {Tags_absent, Tags_empty, Tags_pets, Tags_users, Tags_common}

PartitionOperation(k, shape) ==
  [operationId |-> OperationIdOf(k), responses |-> shape[1]] @@ shape[2]

\* a document of one to MaxOps operations, for the partitioner
IsPartitionDocument(sp) ==
  \E n \in 1..MaxOps : \E shapes \in [1..n -> PartitionShapes] :
     sp = Document([k \in 1..n |-> PartitionOperation(k, shapes[k])])

\* the status keys of a responses object, in Object.entries order: the
\* integer-like keys ascending, then the others
StatusOrder == <<Status_200, Status_301, Status_404, Status_2XX, Word_default>>

ResponseChoices ==
  {NoContent, TextResponse, SseResponse(InlineObject), RefResponse(Name_NotFound)}
  \cup {JsonResponse(schema) :
          schema \in {InlineObject, StringSchema, RefErr, RefAlias,
                      AllOfObject, AllOfString}}

RECURSIVE ResponsesFrom(_, _, _)
ResponsesFrom(i, statuses, choice) ==
  IF i > Len(StatusOrder) THEN <<>>
  ELSE (IF i \in statuses THEN <<Prop(StatusOrder[i], choice[i])>> ELSE <<>>)
       \o ResponsesFrom(i + 1, statuses, choice)

\* the request side of an operation: nothing, a path and a required query
\* parameter, a JSON body, a multipart body
RequestChoices ==
  {<<>>,
   [parameters |->
      <<[name |-> Key_petId, in |-> "path", required |-> TRUE, schema |-> StringSchema],
        [name |-> Key_limit, in |-> "query", required |-> TRUE, schema |-> StringSchema]>>],
   [requestBody |-> [content |-> ("application/json" :> [schema |-> RefErr])]],
   [requestBody |-> [content |-> ("multipart/form-data" :> [schema |-> InlineObject])]]}

\* a document of one operation with up to MaxResponses responses, for the
\* response classification
IsClassifyDocument(sp) ==
  \E statuses \in {s \in SUBSET DOMAIN StatusOrder : Cardinality(s) <= MaxResponses} :
    \E choice \in [statuses -> ResponseChoices], request \in RequestChoices :
       sp = Document(<<[operationId |-> OperationIdOf(1),
                        tags |-> <<Tag_pets>>,
                        responses |-> ResponsesFrom(1, statuses, choice)] @@ request>>)

\* the state generate starts in: a fresh JsonSchemaGen, nothing walked yet
Start ==
  /\ pc = "walk"
  /\ cursor = 1
  /\ gen = [store |-> <<>>, errors |-> {}]
  /\ operations = <<>>
  /\ tagGroups = <<>>
  /\ tagSchemaNames = <<>>
  /\ commonSchemaNames = {}
  /\ modules = <<>>
  /\ calls = <<>>
  /\ output = <<>>
  /\ emittedBrands = {}
  /\ previous = None
  /\ args = [spec |-> None, url |-> None]
  /\ before = None
  /\ files = None
  /\ barrelExports = <<>>

\* the schemas registered per run
MaxSchemas == 2

Name_Pet == <<"P","e","t">>
Name_Order == <<"O","r","d","e","r">>
Name_Comment == <<"C","o","m","m","e","n","t">>
Name_Entity == <<"E","n","t","i","t","y">>
Name_Author == <<"A","u","t","h","o","r">>
Name_Book == <<"B","o","o","k">>
Key_label == <<"l","a","b","e","l">>
Key_name == <<"n","a","m","e">>
Key_data == <<"d","a","t","a">>
Key_id == <<"i","d">>
Key_uuid == <<"u","u","i","d">>
Key_userId == <<"u","s","e","r","I","d">>
Key_user_id == <<"u","s","e","r","_","i","d">>
Key_orgUuid == <<"o","r","g","U","u","i","d">>
Key_org_uuid == <<"o","r","g","_","u","u","i","d">>
Key_userID == <<"u","s","e","r","I","D">>
Key_email == <<"e","m","a","i","l">>
Key_valid == <<"v","a","l","i","d">>
Key_author == <<"a","u","t","h","o","r">>
Key_books == <<"b","o","o","k","s">>
Value_foo == <<"f","o","o">>

IntegerSchema == [type |-> "integer"]
NullSchema == [type |-> "null"]
\* the three spellings of a nullable string, and each of the first and the third
\* with a redundant nullable flag
NullableFlag == [type |-> "string", nullable |-> TRUE]
NullableTypes == [types |-> <<"string", "null">>]
NullableAnyOf == [anyOf |-> <<StringSchema, NullSchema>>]
NullableTypesFlag == [types |-> <<"string", "null">>, nullable |-> TRUE]
NullableAnyOfFlag == [anyOf |-> <<StringSchema, NullSchema>>, nullable |-> TRUE]
NullableSpellings ==
  {NullableFlag, NullableTypes, NullableAnyOf, NullableTypesFlag, NullableAnyOfFlag}
NullableDefaultNull == [type |-> "string", nullable |-> TRUE, default |-> JsonNull]
StringDefaultFoo == [type |-> "string", default |-> JsonString(Value_foo)]
\* "https://example.com/schema.json"
ExternalRef == ("$ref" :> [local |-> FALSE, section |-> "", name |-> <<>>])

\* Author holds its books, Book its author, Node itself
BuildComponents ==
  [schemas |->
     (Name_Author :> ObjectSchema(<<Prop(Key_books, ArraySchema(RefSchema(Name_Book)))>>,
                                  <<Key_books>>))
     @@ (Name_Book :> ObjectSchema(<<Prop(Key_author, RefSchema(Name_Author))>>,
                                   <<Key_author>>))
     @@ (Name_Node :> ObjectSchema(<<Prop(Key_next, RefNode)>>, <<>>))]

BuildContext == [paths |-> <<>>, components |-> BuildComponents]

\* a struct whose property `label` is required or not, in every nullable and
\* default combination
WrapperSchemas ==
  {ObjectSchema(<<Prop(Key_label, schema)>>, required) :
     schema \in {StringSchema} \cup NullableSpellings, required \in {<<>>, <<Key_label>>}}
  \cup {ObjectSchema(<<Prop(Key_label, schema)>>, <<Key_label>>) :
          schema \in {NullableDefaultNull, StringDefaultFoo}}

BrandKeys ==
  {Key_id, Key_uuid, Key_userId, Key_user_id, Key_orgUuid, Key_org_uuid,
   Key_userID, Key_name, Key_email, Key_valid}

\* a struct with one required string property of each key, one whose id is an
\* integer, and one with two keys of the same brand
BrandSchemas ==
  {ObjectSchema(<<Prop(key, StringSchema)>>, <<key>>) : key \in BrandKeys}
  \cup {ObjectSchema(<<Prop(Key_userId, IntegerSchema)>>, <<Key_userId>>),
         ObjectSchema(<<Prop(Key_userId, StringSchema), Prop(Key_user_id, StringSchema)>>,
                      <<Key_userId>>)}

\* a struct with a pointer out of the document next to a plain property, and
\* the pointers into the cycles of the components
PointerSchemas ==
  {ObjectSchema(<<Prop(Key_data, ExternalRef), Prop(Key_name, StringSchema)>>,
                <<Key_data, Key_name>>),
   ObjectSchema(<<Prop(Key_name, StringSchema), Prop(Key_data, ExternalRef)>>, <<>>),
   ObjectSchema(<<Prop(Key_author, RefSchema(Name_Author))>>, <<Key_author>>),
   ObjectSchema(<<Prop(Key_next, RefNode)>>, <<>>),
   RefSchema(Name_Book)}

\* the schemas that point into the cycles of the components
CycleSchemas == PointerSchemas \cup {RefSchema(Name_Author), RefNode}

BuildSchemas ==
  WrapperSchemas \cup BrandSchemas \cup CycleSchemas \cup NullableSpellings

\* the name of the i-th call
BuildNames == <<Name_Pet, Name_Order, Name_Comment, Name_Entity>>

IsBuildRun(cs) ==
  \E n \in 1..MaxSchemas : \E schemas \in [1..n -> BuildSchemas] :
     cs = [i \in 1..n |-> [name |-> BuildNames[i], schema |-> schemas[i]]]

Name_Form == <<"F","o","r","m">>
Name_Upload == <<"U","p","l","o","a","d">>
Value_pattern == <<"^","[","A","-","Z","]","+","$">>

\* a string fragment with the constraints of `keys`, written in that order
StringFragment(keys) ==
  [k \in {"type", "keys"} \cup SeqSet(keys) |->
     CASE k = "type" -> "string"
       [] k = "keys" -> keys
       [] k = "minLength" -> 3
       [] k = "maxLength" -> 10
       [] k = "pattern" -> Value_pattern]

\* every selection of the three constraints in every order of writing
ConstraintOrders ==
  {keys \in UNION {[1..n -> SeqSet(StringChecks)] : n \in 0..Len(StringChecks)} :
     \A i, j \in DOMAIN keys : i # j => keys[i] # keys[j]}

UuidString == [type |-> "string", format |-> "uuid"]
BinaryString == [type |-> "string", format |-> "binary"]
BinaryStringMin ==
  [type |-> "string", format |-> "binary", minLength |-> 3, keys |-> <<"minLength">>]

StringFragments ==
  {StringFragment(keys) : keys \in ConstraintOrders}
  \cup {UuidString, BinaryString, BinaryStringMin}

\* a struct with one required property `code` holding the fragment, and three
\* fragments registered by themselves
StringSchemas ==
  {ObjectSchema(<<Prop(Key_code, fragment)>>, <<Key_code>>) :
     fragment \in StringFragments}
  \cup {StringFragment(<<"pattern", "minLength">>), StringFragment(<<>>), UuidString}

StringNames == <<Name_Form, Name_Upload, Name_Entity>>

IsStringRun(cs) ==
  \E n \in 1..MaxSchemas : \E schemas \in [1..n -> StringSchemas] :
     cs = [i \in 1..n |-> [name |-> StringNames[i], schema |-> schemas[i]]]

\* the state before the first call of a run
StartBuild ==
  /\ spec = BuildContext
  /\ pc = "add"
  /\ cursor = 1
  /\ gen = [store |-> <<>>, errors |-> {}]
  /\ operations = <<>>
  /\ tagGroups = <<>>
  /\ tagSchemaNames = <<>>
  /\ commonSchemaNames = {}
  /\ modules = <<>>
  /\ output = <<>>
  /\ emittedBrands = {}
  /\ previous = None
  /\ args = [spec |-> None, url |-> None]
  /\ before = None
  /\ files = None
  /\ barrelExports = <<>>

\* a fresh JsonSchemaGen and the calls a run makes on it
InitBuild == IsBuildRun(calls) /\ StartBuild

\* a fresh JsonSchemaGen and a run of calls with string fragments
InitStrings == IsStringRun(calls) /\ StartBuild


\* two operations that may share a path (under different methods) and whose
\* operation ids, when present, differ as written
Method_post == <<"p","o","s","t">>
OperationId_op1 == <<"o","p","1">>
InlineHolder == ObjectSchema(<<Prop(Key_detail, RefErr)>>, <<>>)
Use_StringOk == <<Prop(Status_200, JsonResponse(StringSchema))>>
Use_InlineOkStringNotFound ==
  <<Prop(Status_200, JsonResponse(InlineObject)),
    Prop(Status_404, JsonResponse(StringSchema))>>
Use_HolderOk == <<Prop(Status_200, JsonResponse(InlineHolder))>>

NamedIds == {<<>>, [operationId |-> OperationIdOf(1)], [operationId |-> OperationId_op1]}

NamedShapes ==
  {[responses |-> Use_InlineOk],
   [responses |-> Use_StringOk],
   [responses |-> Use_InlineOkStringNotFound],
   [responses |-> Use_HolderOk],
   [responses |-> Use_Nothing,
    requestBody |-> [content |-> ("application/json" :> [schema |-> InlineObject])]],
   [responses |-> Use_Nothing,
    requestBody |-> [content |-> ("multipart/form-data" :> [schema |-> StringSchema])]]}

NamedEntries ==
  {[path |-> PathOf(p), method |-> method,
    operation |-> id @@ shape @@ [tags |-> <<Tag_pets>>]] :
     p \in 1..MaxOps, method \in {Method_get, Method_post},
     id \in NamedIds, shape \in NamedShapes}

\* a document of two operations: distinct (path, method) pairs, and distinct
\* operation ids where both have one
IsNamedDocument(sp) ==
  \E first \in NamedEntries, second \in NamedEntries :
     /\ <<first.path, first.method>> # <<second.path, second.method>>
     /\ ("operationId" \in DOMAIN first.operation
           /\ "operationId" \in DOMAIN second.operation)
          => first.operation.operationId # second.operation.operationId
     /\ sp = [paths |-> <<first, second>>, components |-> Components]

\* an inline object with an identifier-shaped property
InlineIdHolder == ObjectSchema(<<Prop(Key_petId, StringSchema)>>, <<>>)
Use_IdOk == <<Prop(Status_200, JsonResponse(InlineIdHolder))>>

TwiceShapes ==
  {Use_IdOk, Use_InlineOk, Use_ErrOk, Use_ErrNotFound}
  \X {Tags_absent, Tags_pets, Tags_users}

\* a document of one to MaxOps operations, for two invocations in a row
IsTwiceDocument(sp) ==
  \E n \in 1..MaxOps : \E shapes \in [1..n -> TwiceShapes] :
     sp = Document([k \in 1..n |-> PartitionOperation(k, shapes[k])])

Tag_Pets == <<"P","e","t","s">>
Tag_petStore == <<"p","e","t","S","t","o","r","e">>
Flag_spec == <<"s","p","e","c",".","j","s","o","n">>
Flag_url == <<"h","t","t","p","s",":","/","/","a","p","i","/","s","p","e","c">>
File_notes == <<"n","o","t","e","s",".","m","d">>
Text_old == <<"o","l","d">>

\* what one operation of a document handed to sync answers with, and its tag
SyncShapes ==
  {Use_InlineOk, Use_ErrOk}
  \X {[tags |-> <<Tag_pets>>], [tags |-> <<Tag_Pets>>],
      [tags |-> <<Tag_petStore>>], [tags |-> <<Word_index>>]}

\* a document of one to MaxOps operations, for sync
IsSyncDocument(sp) ==
  \E n \in 1..MaxOps : \E shapes \in [1..n -> SyncShapes] :
     sp = Document([k \in 1..n |-> PartitionOperation(k, shapes[k])])

\* the output directory before the command runs: absent, empty, or holding
\* files of an earlier run and a file of the user
Directories ==
  {None,
   Some(<<>>),
   Some(<<Prop(filenameOf(Tag_pets), Text_old),
          Prop(filenameOf(Word__common), Text_old),
          Prop(Word_index \o Suffix_ts, Text_old),
          Prop(File_notes, Text_old)>>)}

\* the state the sync command starts in
StartSync ==
  /\ pc = "sync"
  /\ cursor = 1
  /\ gen = [store |-> <<>>, errors |-> {}]
  /\ operations = <<>>
  /\ tagGroups = <<>>
  /\ tagSchemaNames = <<>>
  /\ commonSchemaNames = {}
  /\ modules = <<>>
  /\ calls = <<>>
  /\ output = <<>>
  /\ emittedBrands = {}
  /\ previous = None
  /\ args \in [spec : {None, Some(Flag_spec)}, url : {None, Some(Flag_url)}]
  /\ before \in Directories
  /\ files = before
  /\ barrelExports = <<>>

Init == IsPartitionDocument(spec) /\ Start

InitSync == IsSyncDocument(spec) /\ StartSync

InitTwice == IsTwiceDocument(spec) /\ Start

InitNamed == IsNamedDocument(spec) /\ Start

InitClassify == IsClassifyDocument(spec) /\ Start

Spec == Init /\ [][Next]_vars

SpecClassify == InitClassify /\ [][Next]_vars

SpecBuild == InitBuild /\ [][NextBuild]_vars

SpecStrings == InitStrings /\ [][NextBuild]_vars

SpecNamed == InitNamed /\ [][Next]_vars

SpecTwice == InitTwice /\ [][NextTwice]_vars

SpecSync == InitSync /\ [][NextSync]_vars

----------------------------------------------------------------------------
(* Reading the document and the result, for the properties below *)

Done == pc = "done"

\* the tag the document gives the k-th operation first, or _untagged
DocPrimaryTag(k) ==
  LET o == spec.paths[k].operation
  IN IF "tags" \in DOMAIN o /\ Len(o.tags) > 0 THEN o.tags[1] ELSE Word__untagged

DocPrimaryTags == {DocPrimaryTag(k) : k \in DOMAIN spec.paths}

\* no operation is tagged with the name of the shared module
NoTagNamedCommon == Word__common \notin DocPrimaryTags

HasCommon == MapHas(modules, Word__common)
Common == MapGet(modules, Word__common)

\* the declaration names a module declares, and the ones it makes available
DeclaredIn(m) == m.source.declarations
AvailableIn(m) == m.source.declarations \cup m.source.reexports

\* the names the i-th tag group references: the ones its operations use and
\* the ones those require, transitively
ReferencedBy(i) == genGenerate(gen, spec, tagSchemaNames[i].value)

\* the names two or more tag groups reference
SharedNames ==
  {n \in UNION {ReferencedBy(i) : i \in DOMAIN tagSchemaNames} :
     Cardinality({i \in DOMAIN tagSchemaNames : n \in ReferencedBy(i)}) >= 2}

\* the responses of the k-th operation, each with its pointers followed
Responses(k) ==
  LET o == spec.paths[k].operation
      rs == IF "responses" \in DOMAIN o THEN o.responses ELSE <<>>
  IN [i \in DOMAIN rs |->
        [key |-> rs[i].key,
         value |-> resolveResponse(spec, rs[i].value, MaxResolveDepth)]]

IsJson(r) == HasSchema(r.value, "application/json")
JsonSchemaOf(r) == r.value.content["application/json"].schema
HasNoContent(r) == "content" \notin DOMAIN r.value
IsDefault(r) == r.key = Word_default
StatusBelow400(r) == majorOf(r.key) # NaN /\ majorOf(r.key) < 4
StatusAtLeast400(r) == majorOf(r.key) # NaN /\ majorOf(r.key) >= 4

\* the declaration name of the JSON schema of a response of the k-th operation
NameOfJson(k, r) ==
  addSchema(gen, spec, schemaIdOf(spec.paths[k]) \o r.key, JsonSchemaOf(r)).name

\* the module that holds the k-th operation, and its status handlers there
ModuleOfOp(k) == MapGet(modules, primaryTag(operations[k]))
HandlersOf(k) ==
  LET impl == ModuleOfOp(k).source.implementation
      j == CHOOSE j \in DOMAIN impl : impl[j].id = operations[k].id
  IN {impl[j].decodes[h] : h \in DOMAIN impl[j].decodes}

\* the responses with a JSON schema and an explicit status below 400
JsonSuccesses(k) ==
  {i \in DOMAIN Responses(k) :
     IsJson(Responses(k)[i]) /\ StatusBelow400(Responses(k)[i])}

\* the responses with an explicit status below 400, whatever they carry
ExplicitSuccesses(k) == {i \in DOMAIN Responses(k) : StatusBelow400(Responses(k)[i])}

DefaultJsons(k) ==
  {i \in DOMAIN Responses(k) : IsJson(Responses(k)[i]) /\ IsDefault(Responses(k)[i])}

\* the 2xx entry of the success map stands for the default response: it holds
\* the default schema and comes from no response written as 2XX
DefaultUsed(k) ==
  /\ \E i \in DefaultJsons(k) :
        /\ MapHas(operations[k].successSchemas, Word_2xx)
        /\ MapGet(operations[k].successSchemas, Word_2xx) = NameOfJson(k, Responses(k)[i])
  /\ ~\E i \in JsonSuccesses(k) : toLowerCase(Responses(k)[i].key) = Word_2xx

\* a JSON response is classified Success: the success map holds its schema
\* under its status
IsSuccess(k, r) ==
  /\ MapHas(operations[k].successSchemas, toLowerCase(r.key))
  /\ MapGet(operations[k].successSchemas, toLowerCase(r.key)) = NameOfJson(k, r)

SuccessKeys(k) == {h.key : h \in {g \in HandlersOf(k) : g.kind = "Success"}}

----------------------------------------------------------------------------
(* Module partitioning *)

\* C1: after generate, the names the _common module holds are exactly the names
\* referenced, directly or transitively, by two or more tag groups, and the
\* module exists iff there is such a name (documents with no tag named _common)
C1_CommonHoldsSharedNames ==
  (Done /\ NoTagNamedCommon) =>
     /\ HasCommon <=> SharedNames # {}
     /\ HasCommon => DeclaredIn(Common) = SharedNames

\* C2: every declaration name is declared in at most one module, and a tag
\* module imports the shared names it uses instead of declaring them
\* (documents with no tag named _common)
C2_DeclaredOnce ==
  (Done /\ NoTagNamedCommon) =>
     /\ \A i, j \in DOMAIN modules :
          i # j => DeclaredIn(modules[i].value) \cap DeclaredIn(modules[j].value) = {}
     /\ \A i \in DOMAIN modules :
          (HasCommon /\ modules[i].key # Word__common) =>
             \A n \in modules[i].value.schemaNames \cap DeclaredIn(Common) :
                /\ n \in modules[i].value.source.reexports
                /\ n \notin DeclaredIn(modules[i].value)

\* C3: a document whose operations all fall into one tag group yields no
\* module keyed _common
C3_SingleTagNoCommon ==
  (Done /\ Cardinality(DocPrimaryTags) = 1) => ~HasCommon

\* C4: every operation is in the operations of exactly one module, the one
\* keyed by its primary tag; _common holds no operation; there is one module
\* per distinct primary tag besides the shared one
C4_OneModulePerOperation ==
  Done =>
     /\ \A k \in DOMAIN operations :
          {modules[i].key : i \in {j \in DOMAIN modules :
              \E h \in DOMAIN modules[j].value.operations :
                 modules[j].value.operations[h] = operations[k]}}
            = {DocPrimaryTag(k)}
     /\ HasCommon => Common.operations = <<>>
     /\ MapKeys(modules) \ {Word__common} = DocPrimaryTags
     /\ Cardinality(MapKeys(modules)) = Len(modules)

----------------------------------------------------------------------------
(* Dependency closure of generate *)

RECURSIVE ReachesWithin(_, _, _)
\* there is a path of at most n dependency edges from declaration a to b
ReachesWithin(a, b, n) ==
  \/ a = b
  \/ /\ n > 0
     /\ \E c \in DependsOn(gen, spec, a) \cap Declarations(gen, spec) :
           ReachesWithin(c, b, n - 1)

\* the declarations reachable from a name of the filter
ReachableFrom(F) ==
  {d \in Declarations(gen, spec) :
     \E f \in F \cap Declarations(gen, spec) :
        ReachesWithin(f, d, Cardinality(Declarations(gen, spec)))}

\* the filters tried: any set of registered names, with or without a name
\* that was never registered
Filters ==
  {F \cup extra : F \in SUBSET Declarations(gen, spec), extra \in {{}, {Word_Params}}}

\* C5: for the declarations registered by the walk and any name filter F,
\* generate emits exactly the declarations reachable from F in the
\* dependency graph
C5_GenerateEmitsClosure ==
  pc = "group" => \A F \in Filters : genGenerate(gen, spec, F) = ReachableFrom(F)

\* a walk that registered a chain of three declarations
C5_Witness ==
  /\ pc = "group"
  /\ \E a, b, c \in Declarations(gen, spec) :
        /\ a # b /\ b # c /\ a # c
        /\ b \in DependsOn(gen, spec, a)
        /\ c \in DependsOn(gen, spec, b)

----------------------------------------------------------------------------
(* Response classification *)

\* C6 as stated: a JSON response is Success iff its status is below 400, and
\* the default schema is the success schema iff no explicit status is below 400
C6_DefaultIffNoExplicitSuccess ==
  Done => \A k \in DOMAIN operations :
     /\ \A i \in DOMAIN Responses(k) :
          (IsJson(Responses(k)[i]) /\ ~IsDefault(Responses(k)[i])) =>
             (IsSuccess(k, Responses(k)[i]) <=> StatusBelow400(Responses(k)[i]))
     /\ DefaultJsons(k) # {} => (DefaultUsed(k) <=> ExplicitSuccesses(k) = {})

\* C6: a JSON response is Success iff its status is below 400, and the default
\* schema is the success schema iff no explicit status below 400 has a JSON schema
C6_DefaultIffNoJsonSuccess ==
  Done => \A k \in DOMAIN operations :
     /\ \A i \in DOMAIN Responses(k) :
          (IsJson(Responses(k)[i]) /\ ~IsDefault(Responses(k)[i])) =>
             (IsSuccess(k, Responses(k)[i]) <=> StatusBelow400(Responses(k)[i]))
     /\ DefaultJsons(k) # {} => (DefaultUsed(k) <=> JsonSuccesses(k) = {})
     /\ DefaultJsons(k) = {} =>
          MapKeys(operations[k].successSchemas) =
            {toLowerCase(Responses(k)[i].key) : i \in JsonSuccesses(k)}

\* an operation with an explicit success status without JSON and a JSON default,
\* whose default schema became the success schema
C6_Witness ==
  /\ Done
  /\ \E k \in DOMAIN operations :
        /\ ExplicitSuccesses(k) # {}
        /\ JsonSuccesses(k) = {}
        /\ DefaultUsed(k)

\* C7: a JSON response with status >= 400 whose schema resolves, through $ref
\* and allOf recursively, to an object with properties is in the tagged error
\* set, its handler decodes <name>Body and fails with <name>, and both are
\* declared
C7_ObjectErrorIsTagged ==
  Done => \A k \in DOMAIN operations : \A i \in DOMAIN Responses(k) :
     LET r == Responses(k)[i]
         name == NameOfJson(k, r)
     IN (IsJson(r) /\ StatusAtLeast400(r) /\ ResolvesToObject(spec, JsonSchemaOf(r))) =>
           /\ name \in operations[k].objectErrorSchemas
           /\ \E h \in HandlersOf(k) :
                 /\ h.key = toLowerCase(r.key)
                 /\ h.kind = "ErrorTagged"
                 /\ h.decode = BodyName(name)
                 /\ h.fail = name
           /\ {name, BodyName(name)} \subseteq AvailableIn(ModuleOfOp(k))

\* C8: a JSON response with status >= 400 whose schema resolves to anything but
\* an object with properties is not in the tagged error set, its handler decodes
\* the schema itself and fails with the decoded value, and no <name>Body is
\* declared or referenced
C8_NonObjectErrorIsPlain ==
  Done => \A k \in DOMAIN operations : \A i \in DOMAIN Responses(k) :
     LET r == Responses(k)[i]
         name == NameOfJson(k, r)
     IN (IsJson(r) /\ StatusAtLeast400(r) /\ ~ResolvesToObject(spec, JsonSchemaOf(r))) =>
           /\ name \notin operations[k].objectErrorSchemas
           /\ \E h \in HandlersOf(k) :
                 /\ h.key = toLowerCase(r.key)
                 /\ h.kind = "ErrorPlain"
                 /\ h.decode = name
                 /\ h.fail = name
           /\ BodyName(name) \notin AvailableIn(ModuleOfOp(k))
           /\ \A h \in HandlersOf(k) : h.decode # BodyName(name)

\* C9: a status without content is Void iff it is below 400; without content
\* and >= 400 it has no entry in the success, error or void sets, no handler
\* and no declaration
C9_VoidIffBelow400 ==
  Done => \A k \in DOMAIN operations : \A i \in DOMAIN Responses(k) :
     LET r == Responses(k)[i]
         status == toLowerCase(r.key)
     IN HasNoContent(r) =>
           /\ status \in SeqSet(operations[k].voidSchemas) <=> StatusBelow400(r)
           /\ (\E h \in HandlersOf(k) : h.kind = "Void" /\ h.key = status)
                <=> StatusBelow400(r)
           /\ StatusAtLeast400(r) =>
                /\ status \notin MapKeys(operations[k].successSchemas)
                /\ status \notin MapKeys(operations[k].errorSchemas)
                /\ \A h \in HandlersOf(k) : h.key # status
                /\ \E h \in HandlersOf(k) : h.kind = "UnexpectedStatus"
                /\ schemaIdOf(spec.paths[k]) \o r.key \notin Declarations(gen, spec)

\* an operation answering without content once below 400 and once at 400 or above
C9_Witness ==
  /\ Done
  /\ \E k \in DOMAIN operations : \E i, j \in DOMAIN Responses(k) :
        /\ HasNoContent(Responses(k)[i]) /\ StatusBelow400(Responses(k)[i])
        /\ HasNoContent(Responses(k)[j]) /\ StatusAtLeast400(Responses(k)[j])
        /\ operations[k].voidSchemas = <<toLowerCase(Responses(k)[i].key)>>

TaggedResponses(k) ==
  {i \in DOMAIN Responses(k) :
     /\ IsJson(Responses(k)[i])
     /\ \E h \in HandlersOf(k) :
          /\ h.kind = "ErrorTagged"
          /\ h.key = toLowerCase(Responses(k)[i].key)
          /\ IsTaggedError(gen, spec, h.fail)}

\* the tagged-error declaration that the handler of a status fails with
TaggedErrorOf(k, status) ==
  TaggedErrorDeclaration(
    (CHOOSE h \in HandlersOf(k) : h.kind = "ErrorTagged" /\ h.key = status).fail)

IsPointer(schema) == "$ref" \in DOMAIN schema

\* C11 as stated: the discriminator of the tagged error of a response is the
\* identifier-cased operation id followed by the status
C11_TagIsOperationIdAndStatus ==
  Done => \A k \in DOMAIN operations : \A i \in TaggedResponses(k) :
     TaggedErrorOf(k, toLowerCase(Responses(k)[i].key)).tag
        = schemaIdOf(spec.paths[k]) \o Responses(k)[i].key

\* C11: the discriminator of the tagged error of a response is the name of its
\* declaration: the identifier-cased operation id followed by the status when
\* the response schema is written inline, and the identifier-cased name of the
\* component when the response schema is a pointer to a component
C11_TagIsDeclarationName ==
  Done => \A k \in DOMAIN operations : \A i \in TaggedResponses(k) :
     LET r == Responses(k)[i]
         declaration == TaggedErrorOf(k, toLowerCase(r.key))
     IN /\ declaration.tag = declaration.name
        /\ declaration.tag =
             IF IsPointer(JsonSchemaOf(r))
             THEN identifier(JsonSchemaOf(r)["$ref"].name)
             ELSE schemaIdOf(spec.paths[k]) \o r.key
        /\ {declaration.name, declaration.body} \subseteq Declarations(gen, spec)

\* an operation whose 404 carries an inline object schema, handled as the
\* tagged error named after the operation and the status
C11_Witness ==
  /\ Done
  /\ \E k \in DOMAIN operations : \E i \in TaggedResponses(k) :
        /\ ~IsPointer(JsonSchemaOf(Responses(k)[i]))
        /\ TaggedErrorOf(k, Status_404).tag = schemaIdOf(spec.paths[k]) \o Status_404

\* the allOf member lists of the error responses of the k-th operation, as
\* handlePath sees them: the response schema with one pointer followed
ErrorMemberLists(k) ==
  {errorSchemaSource(spec, JsonSchemaOf(Responses(k)[i])).allOf :
     i \in {j \in DOMAIN Responses(k) :
              /\ IsJson(Responses(k)[j])
              /\ StatusAtLeast400(Responses(k)[j])
              /\ "allOf" \in DOMAIN errorSchemaSource(spec, JsonSchemaOf(Responses(k)[j]))}}

\* the required names of one allOf member, its pointer followed
RequiredOfMember(member) ==
  LET resolved == IF IsPointer(member) THEN resolveRef(spec, member["$ref"]) ELSE member
  IN IF "required" \in DOMAIN resolved THEN SeqSet(resolved.required) ELSE {}

Reversed(members) == [i \in DOMAIN members |-> members[Len(members) + 1 - i]]

MergedRequired(members) ==
  SeqSet(mergeAllOfMembers(spec, [properties |-> <<>>, required |-> <<>>], members).required)

\* C16: merging an allOf member list and merging the reversed list give the
\* same set of required names, the union of the members' required sets
C16_AllOfRequiredIsUnion ==
  Done => \A k \in DOMAIN operations : \A members \in ErrorMemberLists(k) :
     /\ MergedRequired(members) = MergedRequired(Reversed(members))
     /\ MergedRequired(members) =
          UNION {RequiredOfMember(members[i]) : i \in DOMAIN members}

----------------------------------------------------------------------------
(* Reading the registered schemas and the emitted source *)

Generated == pc = "generated"

\* the registered object schemas: the indexes of the store entries with properties
Structs == {i \in DOMAIN gen.store : "properties" \in DOMAIN gen.store[i].value}

\* the properties of a registered object schema: [struct, key, schema, required]
PropertiesOf(i) ==
  {[struct |-> gen.store[i].key,
    key |-> gen.store[i].value.properties[j].key,
    schema |-> gen.store[i].value.properties[j].value,
    required |-> gen.store[i].value.properties[j].key
                   \in SeqSet(requiredOf(gen.store[i].value))] :
     j \in DOMAIN gen.store[i].value.properties}

Properties == UNION {PropertiesOf(i) : i \in Structs}

\* the emitted declarations of a name
DeclarationsOf(name) == {i \in DOMAIN output : output[i].name = name}

StructDeclarationsOf(name) ==
  {i \in DeclarationsOf(name) : output[i].source.kind = "Struct"}

BrandDeclarationsOf(name) ==
  {i \in DeclarationsOf(name) : output[i].source.kind = "Brand"}

\* the emitted fields of a property: what the declarations of its struct give
\* for its key
FieldsOf(p) ==
  UNION {{output[i].source.fields[j].source :
            j \in {f \in DOMAIN output[i].source.fields :
                     output[i].source.fields[f].key = p.key}} :
         i \in StructDeclarationsOf(p.struct)}

RECURSIVE Unwrapped(_)
\* an emitted type without its optional, nullable and default wrappers
Unwrapped(source) ==
  IF source.kind \in {"OptionalKey", "NullOr", "WithDecodingDefault"}
  THEN Unwrapped(source.of)
  ELSE source

\* the key ends with the suffix
HasSuffix(key, suffix) ==
  \E i \in 1..(Len(key) + 1) : SubSeq(key, i, Len(key)) = suffix

\* the brand name a key and the name of its struct derive
DerivedBrand(p) ==
  IF p.key \in {Key_id, Key_uuid}
  THEN p.struct \o <<toUpperCaseChar(p.key[1])>> \o Tail(p.key)
  ELSE identifier(p.key)

\* the property is emitted with a brand as its type
IsBranded(p) ==
  \E source \in FieldsOf(p) :
     /\ Unwrapped(source).kind = "Ref"
     /\ BrandDeclarationsOf(Unwrapped(source).name) # {}

BrandedProperties == {p \in Properties : IsBranded(p)}

\* the properties whose key the generator takes for an identifier
IdProperties == {p \in Properties : isIdField(p.key)}

\* C12: whatever the calls and their order, every brand name derived by a
\* property has exactly one brand declaration in the output, every property of
\* that brand refers to it by name, and no other brand declaration is emitted
C12_OneDeclarationPerBrand ==
  Generated =>
     /\ \A p \in IdProperties :
          /\ Cardinality(BrandDeclarationsOf(DerivedBrand(p))) = 1
          /\ FieldsOf(p) # {}
          /\ \A source \in FieldsOf(p) : Unwrapped(source) = onRef(DerivedBrand(p))
     /\ \A i \in DOMAIN output :
          output[i].source.kind = "Brand" =>
             \E p \in IdProperties : DerivedBrand(p) = output[i].name
     /\ \A i, j \in DOMAIN output :
          (output[i].source.kind = "Brand" /\ output[i].name = output[j].name) => i = j

\* two calls, the first with two properties of the brand UserId and the second
\* with a third, and one declaration of UserId in the output
C12_Witness ==
  /\ Generated
  /\ Cardinality({p \in IdProperties : DerivedBrand(p) = identifier(Key_userId)}) = 3
  /\ Cardinality(BrandDeclarationsOf(identifier(Key_userId))) = 1

Name_UserId == <<"U","s","e","r","I","d">>

MatchesListedPattern(key) ==
  \/ key = <<"i","d">>
  \/ HasSuffix(key, <<"I","d">>)
  \/ HasSuffix(key, <<"_","i","d">>)
  \/ key = <<"u","u","i","d">>
  \/ HasSuffix(key, <<"U","u","i","d">>)
  \/ HasSuffix(key, <<"_","u","u","i","d">>)

\* C14 as stated: a property is branded iff its key matches one of the six
\* listed patterns
C14_BrandedIffListedPattern ==
  Generated => \A p \in Properties : IsBranded(p) <=> MatchesListedPattern(p.key)

\* C14: a property is branded iff its key matches one of the six listed
\* patterns or ends in ID, matched case-sensitively; every other key is not
\* branded
C14_BrandedIffListedPatternOrID ==
  Generated => \A p \in Properties :
     /\ IsBranded(p) <=> (MatchesListedPattern(p.key) \/ HasSuffix(p.key, <<"I","D">>))
     /\ p.key \in {Key_name, Key_email, Key_valid, Key_label} => ~IsBranded(p)
     /\ p.key = Key_userID => IsBranded(p)

\* a struct with the key userID, branded, next to one with the key valid, not
\* branded
C14_Witness ==
  /\ Generated
  /\ \E p, q \in Properties :
        /\ p.key = Key_userID /\ IsBranded(p)
        /\ q.key = Key_valid /\ ~IsBranded(q)

\* the stored schema spells a nullable string in one of the three ways
SpellsNullableString(schema) ==
  \/ /\ "type" \in DOMAIN schema /\ schema.type = "string"
     /\ "nullable" \in DOMAIN schema /\ schema.nullable = TRUE
  \/ /\ "types" \in DOMAIN schema
     /\ SeqSet(schema.types) = {"string", "null"}
  \/ /\ "anyOf" \in DOMAIN schema
     /\ {schema.anyOf[i] : i \in DOMAIN schema.anyOf} = {StringSchema, NullSchema}

\* the registered schemas that spell a nullable string with nothing else
NullableStrings ==
  {i \in DOMAIN gen.store :
     /\ SpellsNullableString(gen.store[i].value)
     /\ "default" \notin DOMAIN gen.store[i].value}

NullableStringProperties ==
  {p \in Properties : SpellsNullableString(p.schema) /\ "default" \notin DOMAIN p.schema}

\* C15: every spelling of a nullable string, with or without a redundant
\* nullable flag, is emitted as the same nullable string: as a declaration of
\* its own, as a required property, and as a property that is not required
C15_NullableSpellingsAgree ==
  Generated =>
     /\ \A i \in NullableStrings :
          {output[d].source : d \in DeclarationsOf(gen.store[i].key)}
             = {NullOr(onPrimitive("String"))}
     /\ \A p \in NullableStringProperties :
          /\ p.required => FieldsOf(p) = {NullOr(onPrimitive("String"))}
          /\ \A q \in NullableStringProperties :
               (p.required = q.required /\ p.key = q.key) => FieldsOf(p) = FieldsOf(q)
          /\ FieldsOf(p) # {}

\* a run that registers two different spellings as required properties, both
\* emitted as the nullable string
C15_Witness ==
  /\ Generated
  /\ \E p, q \in NullableStringProperties :
        /\ p.schema = NullableTypes /\ q.schema = NullableAnyOfFlag
        /\ p.required /\ q.required
        /\ FieldsOf(p) = {NullOr(onPrimitive("String"))}
        /\ FieldsOf(q) = {NullOr(onPrimitive("String"))}

RECURSIVE AcceptsNull(_)
\* a decoder of the emitted type accepts the value null
AcceptsNull(source) ==
  \/ source.kind \in {"NullOr", "Null"}
  \/ source.kind \in {"OptionalKey", "WithDecodingDefault"} /\ AcceptsNull(source.of)

\* a decoder of the emitted field accepts an object without the key
AcceptsAbsence(source) == source.kind \in {"OptionalKey", "WithDecodingDefault"}

\* the schema of the property is nullable: by its flag, its type list or a
\* null member of its anyOf
DeclaredNullable(schema) ==
  \/ "nullable" \in DOMAIN schema /\ schema.nullable = TRUE
  \/ "types" \in DOMAIN schema /\ "null" \in SeqSet(schema.types)
  \/ "anyOf" \in DOMAIN schema /\ NullSchema \in SeqSet(schema.anyOf)

\* the properties that are emitted: those whose type is not a pointer out of
\* the document
EmittedProperties == {p \in Properties : FieldsOf(p) # {}}

\* C17 as stated: the field of a property that is not required accepts null
\* iff the property is nullable
C17_OptionalAcceptsNullIffNullable ==
  Generated => \A p \in EmittedProperties : \A source \in FieldsOf(p) :
     ~p.required =>
        /\ AcceptsAbsence(source)
        /\ AcceptsNull(source) <=> DeclaredNullable(p.schema)

\* C17: the field of a property that is not required accepts both absence and
\* null, whether the property is nullable or not: it is the optional key over
\* the nullable type
C17_OptionalAcceptsNull ==
  Generated => \A p \in EmittedProperties : \A source \in FieldsOf(p) :
     ~p.required =>
        /\ AcceptsAbsence(source)
        /\ AcceptsNull(source)
        /\ source = optionalKey(NullOr(Unwrapped(source)))

\* a string property that is neither required nor nullable, emitted as the
\* optional key over the nullable string
C17_Witness ==
  /\ Generated
  /\ \E p \in EmittedProperties :
        /\ ~p.required
        /\ p.schema = StringSchema
        /\ FieldsOf(p) = {optionalKey(NullOr(onPrimitive("String")))}

\* the default of the schema of a property is null, is another value, is absent
DefaultIsNull(schema) == "default" \in DOMAIN schema /\ schema.default = JsonNull
HasOtherDefault(schema) == "default" \in DOMAIN schema /\ schema.default # JsonNull
HasNoDefault(schema) == "default" \notin DOMAIN schema

\* C18: the field of a required property is, by first match: the nullable type
\* with a decoding default of null when it is nullable with default null, the
\* plain nullable type when it is nullable without default, the type with a
\* decoding default of v when it is not nullable with a default v that is not
\* null, and the plain type when it is not nullable without default; it never
\* is an optional key
C18_RequiredWrapperByFirstMatch ==
  Generated => \A p \in EmittedProperties : \A source \in FieldsOf(p) :
     p.required =>
        /\ source.kind # "OptionalKey"
        /\ (DeclaredNullable(p.schema) /\ DefaultIsNull(p.schema)) =>
              /\ source = withDecodingDefault(NullOr(Unwrapped(source)), JsonNull)
              /\ AcceptsNull(source) /\ AcceptsAbsence(source)
        /\ (DeclaredNullable(p.schema) /\ HasNoDefault(p.schema)) =>
              /\ source = NullOr(Unwrapped(source))
              /\ ~AcceptsAbsence(source)
        /\ (~DeclaredNullable(p.schema) /\ HasOtherDefault(p.schema)) =>
              /\ source = withDecodingDefault(Unwrapped(source), p.schema.default)
              /\ ~AcceptsNull(source)
        /\ (~DeclaredNullable(p.schema) /\ HasNoDefault(p.schema)) =>
              /\ source = Unwrapped(source)
              /\ ~AcceptsNull(source) /\ ~AcceptsAbsence(source)

\* a run with a required nullable property with default null and a required
\* nullable property without default, each with its own wrapper
C18_Witness ==
  /\ Generated
  /\ \E p, q \in EmittedProperties :
        /\ p.required /\ p.schema = NullableDefaultNull
        /\ FieldsOf(p) = {withDecodingDefault(NullOr(onPrimitive("String")), JsonNull)}
        /\ q.required /\ q.schema = NullableFlag
        /\ FieldsOf(q) = {NullOr(onPrimitive("String"))}

\* the schema of the property is a pointer that does not start with "#/"
IsExternal(schema) == IsPointer(schema) /\ ~schema["$ref"].local

\* the keys of a property list whose schema is not a pointer out of the document
RECURSIVE LocalKeys(_)
LocalKeys(properties) ==
  IF properties = <<>> THEN <<>>
  ELSE (IF IsExternal(Head(properties).value) THEN <<>> ELSE <<Head(properties).key>>)
       \o LocalKeys(Tail(properties))

\* C19: generate, called after the last addSchema, returns the declarations
\* of the run; a registered struct is declared once, with a field for each of
\* its properties but those whose schema is a pointer out of the document, in
\* document order; every other registered schema is declared as well
C19_ExternalPointerIsDropped ==
  /\ (pc = "add" /\ cursor > Len(calls)) =>
        LET source == generateAll(gen, spec)
        IN MapKeys(gen.store) \subseteq {source[d].name : d \in DOMAIN source}
  /\ Generated =>
       /\ \A i \in Structs :
            /\ Cardinality(StructDeclarationsOf(gen.store[i].key)) = 1
            /\ \A d \in StructDeclarationsOf(gen.store[i].key) :
                 [f \in DOMAIN output[d].source.fields |-> output[d].source.fields[f].key]
                    = LocalKeys(gen.store[i].value.properties)
       /\ \A i \in DOMAIN gen.store : DeclarationsOf(gen.store[i].key) # {}
       /\ \A c \in DOMAIN calls :
            IsPointer(calls[c].schema) \/ DeclarationsOf(calls[c].name) # {}

\* a struct with a pointer out of the document and a property name, declared
\* with the field name alone, next to another declared struct
C19_Witness ==
  /\ Generated
  /\ \E i \in Structs : \E p \in PropertiesOf(i) : \E d \in StructDeclarationsOf(gen.store[i].key) :
        /\ IsExternal(p.schema) /\ p.required
        /\ Len(output[d].source.fields) = 1
        /\ output[d].source.fields[1].key = Key_name
  /\ Cardinality({output[d].name : d \in DOMAIN output}) >= 2

RECURSIVE ComponentsWithin(_, _)
\* the components reached from a set of component names in at most n steps
ComponentsWithin(names, n) ==
  IF n = 0 THEN names
  ELSE ComponentsWithin(
         names \cup UNION {RefNames(spec.components.schemas[c]) : c \in names}, n - 1)

\* the components the calls of the run reach
ReachedComponents ==
  ComponentsWithin(UNION {RefNames(calls[c].schema) : c \in DOMAIN calls},
                   Cardinality(DOMAIN spec.components.schemas))

\* the component is on a cycle: it reaches itself
OnCycle(name) ==
  name \in ComponentsWithin(RefNames(spec.components.schemas[name]),
                            Cardinality(DOMAIN spec.components.schemas))

RECURSIVE NamesOnly(_)
\* the emitted type holds no struct written out in place
NamesOnly(source) ==
  /\ source.kind # "Struct"
  /\ source.kind \in {"OptionalKey", "NullOr", "WithDecodingDefault", "Array"}
        => NamesOnly(source.of)

\* the names an emitted type refers to
RECURSIVE NamesIn(_)
NamesIn(source) ==
  IF source.kind = "Ref" THEN {source.name}
  ELSE IF source.kind \in {"OptionalKey", "NullOr", "WithDecodingDefault", "Array"}
  THEN NamesIn(source.of)
  ELSE {}

\* every component on a cycle that the run reaches is declared exactly once, as
\* a struct whose fields refer to the components it points to by name
CyclesDeclaredByName ==
  \A name \in ReachedComponents :
     OnCycle(name) =>
        /\ Cardinality(DeclarationsOf(name)) = 1
        /\ \A d \in DeclarationsOf(name) :
             /\ output[d].source.kind = "Struct"
             /\ \A f \in DOMAIN output[d].source.fields :
                  NamesOnly(output[d].source.fields[f].source)
             /\ UNION {NamesIn(output[d].source.fields[f].source) :
                         f \in DOMAIN output[d].source.fields}
                  = RefNames(spec.components.schemas[name])

\* the calls and the generate still to make
StepsLeft == IF Generated THEN 0 ELSE Len(calls) + 2 - cursor

\* C20: every step of a run leaves one step less to make, so a run of n calls
\* ends after n + 1 steps; generate, called after the last addSchema, returns
\* the declarations of the run; and there every schema on a cycle that the run
\* reaches is declared exactly once, by name, with no schema written out in
\* place
C20_CyclesTerminateByName ==
  /\ [][StepsLeft' = StepsLeft - 1]_vars
  /\ [](/\ StepsLeft \in 0..(Len(calls) + 1)
        /\ (pc = "add" /\ cursor > Len(calls)) =>
              LET source == generateAll(gen, spec)
              IN ReachedComponents \subseteq {source[d].name : d \in DOMAIN source}
        /\ Generated => CyclesDeclaredByName)

\* a run that reached Author and Book, which hold each other, and Node, which
\* holds itself, each declared once
C20_Witness ==
  /\ Generated
  /\ ReachedComponents = {Name_Author, Name_Book, Name_Node}
  /\ \A name \in ReachedComponents :
        OnCycle(name) /\ Cardinality(DeclarationsOf(name)) = 1

----------------------------------------------------------------------------
(* Status keys of the handlers of one operation *)

\* the entries of matchStatus of the k-th operation, in the order of the
\* emitted object literal
DecodesOf(k) ==
  LET impl == ModuleOfOp(k).source.implementation
      j == CHOOSE j \in DOMAIN impl : impl[j].id = operations[k].id
  IN impl[j].decodes

\* the handlers generated for the responses of the operation
StatusHandlers(k) ==
  {h \in DOMAIN DecodesOf(k) :
     DecodesOf(k)[h].kind \in {"Success", "ErrorTagged", "ErrorPlain", "Void"}}

\* C28: for every operation, the status keys of the handlers generated for its
\* responses (success keys after the 2xx normalization and the default
\* fallback, error keys and void keys) are pairwise distinct: no two entries
\* of matchStatus carry the same key.
C28_HandlerKeysDistinct ==
  Done =>
    \A k \in DOMAIN operations :
      \A a, b \in StatusHandlers(k) :
         a # b => DecodesOf(k)[a].key # DecodesOf(k)[b].key

----------------------------------------------------------------------------
(* Tagged errors whose schema is a pointer to a component *)

\* the responses of the k-th operation with a status of 400 or above whose
\* JSON schema is a pointer to a component that is an object schema
PointerErrors(k) ==
  {i \in DOMAIN Responses(k) :
     /\ IsJson(Responses(k)[i])
     /\ StatusAtLeast400(Responses(k)[i])
     /\ IsPointer(JsonSchemaOf(Responses(k)[i]))
     /\ "properties" \in DOMAIN resolveRef(spec, JsonSchemaOf(Responses(k)[i])["$ref"])}

ComponentOf(r) == identifier(JsonSchemaOf(r)["$ref"].name)

\* the primary tags of the operations that answer with the declaration
TagsUsing(name) ==
  {DocPrimaryTag(k) : k \in {j \in DOMAIN spec.paths :
      \E i \in DOMAIN Responses(j) :
         IsJson(Responses(j)[i]) /\ NameOfJson(j, Responses(j)[i]) = name}}

\* C27: when the schema of a response of 400 or above is a pointer to a
\* component object schema, the handler of that status decodes the body struct
\* of the component and fails with the tagged error declared under the
\* component's name, whose discriminator is that name, with one tag group and
\* with several; when two tag groups answer with the component, the module of
\* the operation imports the error declaration and its Body struct from _common.
C27_PointerErrorTaggedByComponent ==
  Done =>
    \A k \in DOMAIN operations : \A i \in PointerErrors(k) :
      LET r == Responses(k)[i]
          name == ComponentOf(r)
      IN /\ \E h \in HandlersOf(k) :
              /\ h.key = toLowerCase(r.key)
              /\ h.kind = "ErrorTagged"
              /\ h.fail = name
              /\ h.decode = BodyName(name)
         /\ IsTaggedError(gen, spec, name)
         /\ TaggedErrorDeclaration(name).tag = name
         /\ Cardinality(TagsUsing(name)) >= 2 =>
              /\ HasCommon
              /\ {name, BodyName(name)} \subseteq ModuleOfOp(k).source.reexports

\* two operations under different tags that both answer 404 with the component
\* Err: each module imports Err and ErrBody
C27_Witness ==
  /\ Done
  /\ Len(operations) = 2
  /\ \A k \in DOMAIN operations :
        /\ PointerErrors(k) # {}
        /\ {Name_Err, BodyName(Name_Err)} \subseteq ModuleOfOp(k).source.reexports
  /\ Cardinality(TagsUsing(Name_Err)) = 2
  /\ Len(modules) = 3

----------------------------------------------------------------------------
(* Referential closure of the modules *)

\* the declaration names the implementation of a module mentions: the JSON
\* payload schema and what each status handler decodes and fails with
NamesOfImplementation(m) ==
  UNION {(IF m.source.implementation[j].payloadFormData THEN {}
          ELSE NamesOf(m.source.implementation[j].payload))
         \cup UNION {NamesOf(m.source.implementation[j].decodes[h].decode)
                       \cup NamesOf(m.source.implementation[j].decodes[h].fail) :
                     h \in DOMAIN m.source.implementation[j].decodes} :
         j \in DOMAIN m.source.implementation}

\* the declaration names the interface of a module mentions
NamesOfTypes(m) ==
  UNION {NamesOf(m.source.types[j].params) \cup NamesOf(m.source.types[j].payload)
         \cup UNION {NamesOf(m.source.types[j].success[h]) :
                       h \in DOMAIN m.source.types[j].success}
         \cup SeqSet(m.source.types[j].errors) :
         j \in DOMAIN m.source.types}

\* the declaration names the declarations of a module mention
NamesOfDeclarations(m) == UNION {DependsOn(gen, spec, d) : d \in DeclaredIn(m)}

ReferencedIn(m) == NamesOfDeclarations(m) \cup NamesOfImplementation(m) \cup NamesOfTypes(m)

\* the names a tag module imports from _common that _common declares
ImportedFromCommon(m) ==
  IF HasCommon THEN m.source.reexports \cap DeclaredIn(Common) ELSE {}

\* C30: every module of the result is referentially closed up to _common: each
\* name a declaration or an operation of a tag module mentions (the Body
\* structs of tagged errors included) is declared in that module or imported
\* from _common, which declares it; every name mentioned inside _common is
\* declared in _common.
C30_ModulesClosedUpToCommon ==
  Done =>
    \A i \in DOMAIN modules :
      IF modules[i].key = Word__common
      THEN ReferencedIn(modules[i].value) \subseteq DeclaredIn(modules[i].value)
      ELSE ReferencedIn(modules[i].value)
             \subseteq DeclaredIn(modules[i].value) \cup ImportedFromCommon(modules[i].value)

----------------------------------------------------------------------------
(* Declaration names across operations *)

\* what the k-th operation registers when it is walked on its own: the
\* declaration names and the fragment stored under each
RegisteredBy(k) ==
  handleOperation(spec, [store |-> <<>>, errors |-> {}], spec.paths[k]).gen.store

\* C29: declaration names are unique across operations: two distinct
\* operations never register different params, request or response fragments
\* under the same declaration name.
C29_NamesUniqueAcrossOperations ==
  \A j, k \in DOMAIN spec.paths :
     j # k =>
       \A n \in MapKeys(RegisteredBy(j)) \cap MapKeys(RegisteredBy(k)) :
          MapGet(RegisteredBy(j), n) = MapGet(RegisteredBy(k), n)

----------------------------------------------------------------------------
(* Emission order of generate *)

PositionIn(declarations, d) == CHOOSE i \in DOMAIN declarations : declarations[i] = d

\* a dependency path of at least one edge leads from a to b
DependsOnPath(a, b) ==
  \E c \in DependsOn(gen, spec, a) \cap Declarations(gen, spec) :
     ReachesWithin(c, b, Cardinality(Declarations(gen, spec)))

\* no declaration of the set is on a cycle
Acyclic(declarations) == \A d \in declarations : ~DependsOnPath(d, d)

\* each declaration stands after the ones it depends on, and two declarations
\* that no path orders stand in registration order
WellOrdered(order) ==
  \A a, b \in DOMAIN order :
     a # b =>
       /\ DependsOnPath(order[a], order[b]) => b < a
       /\ (~DependsOnPath(order[a], order[b]) /\ ~DependsOnPath(order[b], order[a]))
            => (a < b <=> PositionIn(registrationOrder(gen, spec, 1), order[a])
                            < PositionIn(registrationOrder(gen, spec, 1), order[b]))

----------------------------------------------------------------------------
(* C22 *)

\* the brand declarations a result holds, over all its modules
BrandsEmittedIn(result) ==
  UNION {brandRegistry(result[i].value.source.text) : i \in DOMAIN result}

----------------------------------------------------------------------------
(* C23 *)

\* the command was given both flags or neither
BothOrNeither == (args.spec # None) = (args.url # None)

\* no generation work has been done
NothingGenerated ==
  /\ gen = [store |-> <<>>, errors |-> {}]
  /\ operations = <<>>
  /\ modules = <<>>
  /\ emittedBrands = {}

\* C23: sync given both a spec file and a URL, or neither, fails, and before
\* any generation work or write: nothing is registered or generated, the
\* output directory is as it was found (absent if it was absent, every file
\* as it was), and the only step the command takes is the one that fails
C23_UsageErrorBeforeAnyWork ==
  /\ [](BothOrNeither
          => /\ pc \in {"sync", "failed"}
             /\ NothingGenerated
             /\ files = before)
  /\ [][(BothOrNeither /\ pc = "sync") => pc' = "failed"]_vars

\* the command has failed, for both flags and for neither, next to a
\* directory that held files
C23_Witness ==
  /\ pc = "failed"
  /\ args.spec # None
  /\ args.url # None
  /\ before # None
  /\ before[1] # <<>>

----------------------------------------------------------------------------
(* C24, C25 *)

\* the names the run writes to
WrittenNames ==
  {filenameOf(modules[i].key) : i \in DOMAIN modules} \cup {Word_index \o Suffix_ts}

\* the modules written to a name, by position in the result
WritersOf(filename) == {i \in DOMAIN modules : filenameOf(modules[i].key) = filename}

\* the text the run wrote last to a name
LastWritten(filename) ==
  IF filename = Word_index \o Suffix_ts THEN barrelContentOf(barrelExports)
  ELSE modules[CHOOSE i \in WritersOf(filename) :
                 \A j \in WritersOf(filename) : j <= i].value.source

C25_OneFilePerModule ==
  pc = "synced"
    => /\ \A i, j \in DOMAIN modules :
            i # j => filenameOf(modules[i].key) # filenameOf(modules[j].key)
       /\ \A i \in DOMAIN modules :
            /\ filenameOf(modules[i].key) # Word_index \o Suffix_ts
            /\ MapGet(files[1], filenameOf(modules[i].key)) = modules[i].value.source

----------------------------------------------------------------------------
(* C26 *)

\* the string fragment of a call: the schema itself, or its property `code`
FragmentOf(call) ==
  IF "properties" \in DOMAIN call.schema THEN call.schema.properties[1].value
  ELSE call.schema

\* what was emitted for the fragment of a call: the declaration of the call's
\* name, or its only field
EmittedFor(call) ==
  LET declaration ==
        output[CHOOSE i \in DOMAIN output : output[i].name = call.name].source
  IN IF declaration.kind = "Struct" THEN declaration.fields[1].source
     ELSE declaration

\* the chain of checks of an emitted type
ChainOf(source) == IF source.kind = "Pipe" THEN source.checks ELSE <<>>

\* one check per constraint the fragment has: minLength, maxLength, pattern
ExpectedChain(fragment) ==
  (IF "minLength" \in DOMAIN fragment
   THEN <<[check |-> "minLength", value |-> fragment.minLength]>> ELSE <<>>)
  \o (IF "maxLength" \in DOMAIN fragment
      THEN <<[check |-> "maxLength", value |-> fragment.maxLength]>> ELSE <<>>)
  \o (IF "pattern" \in DOMAIN fragment
      THEN <<[check |-> "pattern", value |-> fragment.pattern]>> ELSE <<>>)

\* two chains are the same: the same checks with the same values, in the same
\* order
SameChain(chain, expected) ==
  /\ Len(chain) = Len(expected)
  /\ \A i \in DOMAIN chain :
       /\ chain[i].check = expected[i].check
       /\ chain[i].value = expected[i].value

\* C26 as stated: for every string schema the emitted chain holds one check
\* per constraint present among minLength, maxLength and pattern and no other,
\* in that order, whatever the order of the fragment's keys
C26_StringChecksFixedOrder ==
  pc = "generated"
    => \A i \in DOMAIN calls :
         SameChain(ChainOf(EmittedFor(calls[i])), ExpectedChain(FragmentOf(calls[i])))

\* C26: for a string schema without a format the emitted type is the string
\* type with one check per constraint present among minLength, maxLength and
\* pattern and no other, in that order, whatever the order of the fragment's
\* keys; with format "uuid" the chain holds a UUID check, and with format
\* "binary" the type is a Blob without checks
C26_StringChecksFixedOrderWithoutFormat ==
  pc = "generated"
    => \A i \in DOMAIN calls :
         LET fragment == FragmentOf(calls[i])
             emitted == EmittedFor(calls[i])
         IN IF "format" \notin DOMAIN fragment
            THEN /\ SameChain(ChainOf(emitted), ExpectedChain(fragment))
                 /\ IF ExpectedChain(fragment) = <<>>
                    THEN emitted = onPrimitive("String")
                    ELSE emitted.kind = "Pipe" /\ emitted.of = onPrimitive("String")
            ELSE IF fragment.format = "uuid"
            THEN [check |-> "isUUID"] \in SeqSet(ChainOf(emitted))
            ELSE emitted = [kind |-> "InstanceOf", of |-> "Blob"]

\* a fragment whose three constraints are written pattern, maxLength,
\* minLength has been emitted, next to one with a single constraint
C26_Witness ==
  /\ pc = "generated"
  /\ \E i, j \in DOMAIN calls :
       /\ "keys" \in DOMAIN FragmentOf(calls[i])
       /\ FragmentOf(calls[i]).keys = <<"pattern", "maxLength", "minLength">>
       /\ Len(ChainOf(EmittedFor(calls[i]))) = 3
       /\ "keys" \in DOMAIN FragmentOf(calls[j])
       /\ FragmentOf(calls[j]).keys = <<"maxLength">>

====
